---- MODULE Spec2Model ----
(***************************************************************************)
(* A model of the document and edit engine of the editor in src/main.go    *)
(* (the second, current version of the program, lines 1436-3759).          *)
(*                                                                         *)
(* Lines are Go rune slices: a line is a slice header (backing array,      *)
(* offset, length) over a heap of arrays, because the program re-slices    *)
(* and appends in place and two rows can share one array.  Strings (the    *)
(* clipboard, the texts of Edit records) are sequences of runes whose      *)
(* len() is their UTF-8 byte length.                                       *)
(***************************************************************************)
EXTENDS Integers, Sequences, FiniteSets, TLC

\* ------------------------------------------------------------------ bounds
MaxLines == 3
MaxRunes == 4
MaxJournal == 2
MaxNav == 2
MaxCmds == 3
MaxSteps == 5
MaxOps == 2
MaxCoordLen == 3
MaxTabs == 3
MaxConsole == 3
MaxLineLen == 2
EditorH == 2
EditorW == 4

\* -------------------------------------------------------- program constants
tabSize == 4
chanCap == 1
Second == 1
editInsert == 0
editDelete == 1
editReplace == 2

\* ------------------------------------------------------------------- runes
A == "a"
W == "W"
TAB == "\t"
NL == "\n"
NUL == "0"
UA == "A"

Max(a, b) == IF a > b THEN a ELSE b
Min(a, b) == IF a < b THEN a ELSE b

RuneWidth(r) == IF r = W THEN 2 ELSE IF r = NUL THEN 0 ELSE 1
RuneLen(r) == IF r = W THEN 3 ELSE 1

RECURSIVE ByteLen(_)
ByteLen(s) == IF s = <<>> THEN 0 ELSE RuneLen(Head(s)) + ByteLen(Tail(s))

RECURSIVE Split(_)
Split(s) ==
  IF \A i \in 1..Len(s) : s[i] # NL THEN <<s>>
  ELSE LET k == CHOOSE i \in 1..Len(s) : s[i] = NL /\ \A j \in 1..(i - 1) : s[j] # NL
       IN <<SubSeq(s, 1, k - 1)>> \o Split(SubSeq(s, k + 1, Len(s)))

RECURSIVE Join(_)
Join(ls) ==
  IF Len(ls) = 0 THEN <<>>
  ELSE IF Len(ls) = 1 THEN ls[1]
  ELSE ls[1] \o <<NL>> \o Join(Tail(ls))

\* --------------------------------------------------------------- Go strings
\* A string of the program is a TLA+ string; its characters are the runes of
\* the model.  []rune(s) and string(runes) convert between a string and the
\* sequence of its runes.
Runes(s) == [i \in 1..Len(s) |-> SubSeq(s, i, i)]

RECURSIVE StringOf(_)
StringOf(q) == IF Len(q) = 0 THEN "" ELSE Head(q) \o StringOf(Tail(q))

RECURSIVE TrimSpace(_)
TrimSpace(s) ==
  IF Len(s) = 0 THEN s
  ELSE IF SubSeq(s, 1, 1) = " " THEN TrimSpace(SubSeq(s, 2, Len(s)))
  ELSE IF SubSeq(s, Len(s), Len(s)) = " " THEN TrimSpace(SubSeq(s, 1, Len(s) - 1))
  ELSE s

\* strings.Index, on strings and on byte sequences: -1 if sub does not occur
Index(s, sub) ==
  LET hits == {i \in 0..(Len(s) - Len(sub)) : SubSeq(s, i + 1, i + Len(sub)) = sub}
  IN IF hits = {} THEN -1 ELSE CHOOSE i \in hits : \A j \in hits : i <= j

\* unicode.ToLower: the letters of the model are a, b, c and their upper case
LowerRune(c) ==
  LET i == Index("ABC", c) IN IF i >= 0 THEN SubSeq("abc", i + 1, i + 1) ELSE c

ToLower(s) == StringOf([i \in 1..Len(s) |-> LowerRune(SubSeq(s, i, i))])

\* strings.Split(s, sep), sep one character
RECURSIVE StringsSplit(_, _)
StringsSplit(s, sep) ==
  LET i == Index(s, sep) IN
  IF i < 0 THEN <<s>>
  ELSE <<SubSeq(s, 1, i)>> \o StringsSplit(SubSeq(s, i + 2, Len(s)), sep)

HasSuffix(s, suffix) ==
  Len(s) >= Len(suffix) /\ SubSeq(s, Len(s) - Len(suffix) + 1, Len(s)) = suffix

\* strconv.Atoi: an optional sign and at least one decimal digit
RECURSIVE DigitsValue(_, _)
DigitsValue(s, acc) ==
  IF Len(s) = 0 THEN acc
  ELSE DigitsValue(SubSeq(s, 2, Len(s)), 10 * acc + Index("0123456789", SubSeq(s, 1, 1)))

Atoi(s) ==
  LET signed == Len(s) > 0 /\ SubSeq(s, 1, 1) \in {"+", "-"}
      digits == IF signed THEN SubSeq(s, 2, Len(s)) ELSE s
      valid == Len(digits) > 0
               /\ \A i \in 1..Len(digits) : Index("0123456789", SubSeq(digits, i, i)) >= 0
      n == DigitsValue(digits, 0)
  IN IF ~valid THEN [err |-> TRUE, n |-> 0]
     ELSE [err |-> FALSE, n |-> IF SubSeq(s, 1, 1) = "-" THEN 0 - n ELSE n]

\* The bytes of string(runes): a rune of RuneLen 3 is its lead byte and two
\* continuation bytes.
Cont == "~"
RuneErrorBytes == <<"?", Cont, Cont>>

RECURSIVE Bytes(_)
Bytes(q) ==
  IF Len(q) = 0 THEN <<>>
  ELSE (IF RuneLen(Head(q)) = 3 THEN <<Head(q), Cont, Cont>> ELSE <<Head(q)>>)
       \o Bytes(Tail(q))

\* strings.ToLower on bytes: a byte that does not begin a whole rune is
\* written as utf8.RuneError
RECURSIVE ToLowerBytes(_)
ToLowerBytes(b) ==
  IF Len(b) = 0 THEN <<>>
  ELSE IF b[1] # Cont /\ RuneLen(b[1]) = 1
    THEN <<LowerRune(b[1])>> \o ToLowerBytes(Tail(b))
  ELSE IF b[1] # Cont /\ Len(b) >= 3 /\ b[2] = Cont /\ b[3] = Cont
    THEN SubSeq(b, 1, 3) \o ToLowerBytes(SubSeq(b, 4, Len(b)))
  ELSE RuneErrorBytes \o ToLowerBytes(Tail(b))

\* ---------------------------------------------------------- Go rune slices
Zeros(n) == [i \in 1..n |-> NUL]

RoundUpCap(n) ==
  IF n <= 8 THEN 2 * ((n + 1) \div 2) ELSE 4 * ((n + 3) \div 4)

GrowCap(newLen, oldCap) ==
  RoundUpCap(IF newLen > 2 * oldCap THEN newLen ELSE 2 * oldCap)

NilSlice == [a |-> 0, o |-> 0, n |-> 0]

SliceCap(h, s) == IF s.a = 0 THEN 0 ELSE Len(h[s.a]) - s.o

SliceText(h, s) == IF s.n = 0 THEN <<>> ELSE SubSeq(h[s.a], s.o + 1, s.o + s.n)

WriteCells(h, a, pos, v) ==
  [h EXCEPT ![a] = [i \in 1..Len(@) |->
      IF i > pos /\ i <= pos + Len(v) THEN v[i - pos] ELSE @[i]]]

MakeSlice(h, txt, cap) ==
  IF cap = 0 THEN [h |-> h, s |-> NilSlice]
  ELSE [h |-> Append(h, txt \o Zeros(cap - Len(txt))),
        s |-> [a |-> Len(h) + 1, o |-> 0, n |-> Len(txt)]]

RunesOf(h, txt) == MakeSlice(h, txt, RoundUpCap(Len(txt)))

\* an append that would add nothing
AppendNothing(h, s, v) == [h |-> h, s |-> s]

GoAppend(h, s, v) ==
  IF Len(v) = 0 THEN [h |-> h, s |-> s]
  ELSE IF s.n + Len(v) <= SliceCap(h, s)
    THEN [h |-> WriteCells(h, s.a, s.o + s.n, v), s |-> [s EXCEPT !.n = @ + Len(v)]]
    ELSE MakeSlice(h, SliceText(h, s) \o v, GrowCap(s.n + Len(v), SliceCap(h, s)))

SlicesInsert(h, s, i, v) ==
  IF i < 0 \/ i > s.n THEN [h |-> h, s |-> s, panic |-> TRUE]
  ELSE IF Len(v) = 0 THEN [h |-> h, s |-> s, panic |-> FALSE]
  ELSE LET txt == SliceText(h, s)
           out == SubSeq(txt, 1, i) \o v \o SubSeq(txt, i + 1, s.n)
           r == IF s.n + Len(v) > SliceCap(h, s)
                  THEN MakeSlice(h, out, GrowCap(s.n + Len(v), SliceCap(h, s)))
                  ELSE [h |-> WriteCells(h, s.a, s.o, out), s |-> [s EXCEPT !.n = Len(out)]]
       IN [h |-> r.h, s |-> r.s, panic |-> FALSE]

SlicesDelete(h, s, i, j) ==
  IF i < 0 \/ i > j \/ j > s.n THEN [h |-> h, s |-> s, panic |-> TRUE]
  ELSE IF i = j THEN [h |-> h, s |-> s, panic |-> FALSE]
  ELSE LET txt == SliceText(h, s)
           out == SubSeq(txt, 1, i) \o SubSeq(txt, j + 1, s.n)
       IN [h |-> WriteCells(h, s.a, s.o, out \o Zeros(j - i)),
           s |-> [s EXCEPT !.n = Len(out)], panic |-> FALSE]

\* ------------------------------------------------------ coordinate mapper
RECURSIVE ScreenWidthFrom(_, _, _, _)
ScreenWidthFrom(line, i, col, screenCol) ==
  IF i > Len(line) \/ i - 1 >= col THEN screenCol
  ELSE ScreenWidthFrom(line, i + 1, col,
         IF line[i] = TAB THEN screenCol + (tabSize - (screenCol % tabSize))
         ELSE screenCol + RuneWidth(line[i]))

columnToScreenWidth(line, col) ==
  ScreenWidthFrom(line, 1, IF col > Len(line) THEN Len(line) ELSE col, 0)

RECURSIVE ColumnFrom(_, _, _, _)
ColumnFrom(line, i, width, screenCol) ==
  IF i > Len(line) THEN Len(line)
  ELSE LET w == IF line[i] = TAB THEN width + (tabSize - (width % tabSize))
                ELSE width + RuneWidth(line[i])
       IN IF screenCol < w THEN i - 1 ELSE ColumnFrom(line, i + 1, w, screenCol)

\* a mapping that would take every rune for one cell
columnAtCell(line, screenCol) ==
  IF screenCol <= 0 THEN 0 ELSE Min(screenCol, Len(line))

\* a mapping that would round a width inside a glyph up to the next column
columnPastGlyph(line, screenCol) ==
  IF screenCol <= 0 THEN 0 ELSE ColumnFrom(line, 1, 0, screenCol + 1)

columnFromScreenWidth(line, screenCol) ==
  IF screenCol <= 0 THEN 0 ELSE ColumnFrom(line, 1, 0, screenCol)

RECURSIVE leadingWhitespaces(_)
leadingWhitespaces(line) ==
  IF line = <<>> THEN 0
  ELSE IF Head(line) # " " /\ Head(line) # TAB THEN 0
  ELSE 1 + leadingWhitespaces(Tail(line))

\* ------------------------------------------------------------ the document
\* A Tab value t is the record of the fields of State/Tab the operations
\* below read and write; t.panicked records that the Go runtime panicked.
LineIdx(t, i) ==
  IF Len(t.lines) = 0 \/ i > Len(t.lines) - 1 THEN 0
  ELSE IF i <= 0 THEN 1
  ELSE i + 1

LineText(t, k) == SliceText(t.heap, t.lines[k])

Content(t) == [k \in 1..Len(t.lines) |-> LineText(t, k)]

Panic(t) == [t EXCEPT !.panicked = TRUE]

InsertLineAfter(ls, k, s) == SubSeq(ls, 1, k) \o <<s>> \o SubSeq(ls, k + 1, Len(ls))

RemoveLines(ls, from, to) == SubSeq(ls, 1, from - 1) \o SubSeq(ls, to + 1, Len(ls))

lineNumLen(t) ==
  IF ~t.lineNumber \/ Len(t.lines) = 0 THEN 0
  ELSE IF Len(t.lines) < 10 THEN 3 ELSE 4

\* a selected() that would return the stored endpoints in drag order
selectedAsDragged(t) ==
  LET s == t.selection IN
  IF s = <<>> THEN <<>>
  ELSE IF s[1] = s[3] /\ s[2] = s[4] THEN <<>>
  ELSE s

selected(t) ==
  LET s == t.selection IN
  IF s = <<>> THEN <<>>
  ELSE IF s[1] = s[3] /\ s[2] = s[4] THEN <<>>
  ELSE IF s[1] > s[3] \/ (s[1] = s[3] /\ s[2] > s[4]) THEN <<s[3], s[4], s[1], s[2]>>
  ELSE s

\* a jump that would leave the horizontal offset alone
jumpNoLeft(t, row0, col0) ==
  LET n == Len(t.lines)
      row == IF row0 < 0 \/ row0 > n - 1 THEN n - 1 ELSE row0
      k == LineIdx(t, row)
  IN IF k = 0 THEN t
     ELSE
       LET line == LineText(t, k)
           col == IF col0 < 0 \/ col0 > Len(line) THEN Len(line) ELSE col0
           h == EditorH
           top == IF row = 0 THEN 0
                  ELSE IF row = n - 1 THEN Max(0, n - h)
                  ELSE IF row < t.top
                    THEN (IF row = t.top - 1 THEN t.top - 1 ELSE Max(0, row - (h \div 2)))
                  ELSE IF row > t.top + h - 1
                    THEN (IF row = t.top + h THEN t.top + 1 ELSE row - (h \div 2))
                  ELSE t.top
       IN [t EXCEPT !.row = row, !.col = col, !.top = top]

jump(t, row0, col0) ==
  LET n == Len(t.lines)
      row == IF row0 < 0 \/ row0 > n - 1 THEN n - 1 ELSE row0
      k == LineIdx(t, row)
  IN IF k = 0 THEN t
     ELSE
       LET line == LineText(t, k)
           col == IF col0 < 0 \/ col0 > Len(line) THEN Len(line) ELSE col0
           h == EditorH
           top == IF row = 0 THEN 0
                  ELSE IF row = n - 1 THEN Max(0, n - h)
                  ELSE IF row < t.top
                    THEN (IF row = t.top - 1 THEN t.top - 1 ELSE Max(0, row - (h \div 2)))
                  ELSE IF row > t.top + h - 1
                    THEN (IF row = t.top + h THEN t.top + 1 ELSE row - (h \div 2))
                  ELSE t.top
           w == EditorW
           i == columnToScreenWidth(line, col)
           left == IF i < t.left THEN i
                   ELSE IF i > t.left + (w - lineNumLen(t) - 1)
                     THEN i - (w - lineNumLen(t) - 1)
                   ELSE t.left
       IN [t EXCEPT !.row = row, !.col = col, !.top = top, !.left = left]

\* deleteRange's single-line branch
DeleteSingle(t, startRow, startCol, endCol) ==
  LET k == LineIdx(t, startRow) IN
  IF k = 0 THEN [t |-> Panic(t), deleted |-> <<>>]
  ELSE
    LET r == SlicesDelete(t.heap, t.lines[k], startCol, endCol)
        line == LineText(t, k)
    IN IF r.panic THEN [t |-> Panic(t), deleted |-> <<>>]
       ELSE [t |-> [t EXCEPT !.heap = r.h, !.lines[k] = r.s,
                             !.row = startRow, !.col = startCol],
             deleted |-> SubSeq(line, startCol + 1, endCol)]

\* deleteRange's multi-line branch
DeleteMulti(t, startRow, startCol, endRow, endCol) ==
  LET k == LineIdx(t, startRow) IN
  IF k = 0 THEN [t |-> Panic(t), deleted |-> <<>>]
  ELSE IF startCol < 0 \/ startCol > SliceCap(t.heap, t.lines[k])
    THEN [t |-> Panic(t), deleted |-> <<>>]
  ELSE IF endRow < startRow
    THEN [t |-> [t EXCEPT !.row = startRow, !.col = startCol], deleted |-> <<>>]
  ELSE IF startCol > t.lines[k].n THEN [t |-> Panic(t), deleted |-> <<>>]
  ELSE
    LET firstLineLeft == [t.lines[k] EXCEPT !.n = startCol]
        first == LineText(t, k)
        kEnd == k + (endRow - startRow)
        reached == kEnd <= Len(t.lines)
        kLast == IF reached THEN kEnd ELSE Len(t.lines)
        middle == [j \in 1..(kLast - k - (IF reached THEN 1 ELSE 0)) |-> LineText(t, k + j)]
        head == SubSeq(first, startCol + 1, Len(first)) \o <<NL>>
        RECURSIVE Mid(_)
        Mid(j) == IF j > Len(middle) THEN <<>> ELSE middle[j] \o <<NL>> \o Mid(j + 1)
    IN IF ~reached
         THEN [t |-> [t EXCEPT !.lines = RemoveLines(@, k, Len(@)),
                               !.row = startRow, !.col = startCol],
               deleted |-> head \o Mid(1)]
       ELSE
         LET last == LineText(t, kEnd) IN
         IF endCol < 0 \/ endCol > t.lines[kEnd].n THEN [t |-> Panic(t), deleted |-> <<>>]
         ELSE
           LET r == GoAppend(t.heap, firstLineLeft, SubSeq(last, endCol + 1, Len(last)))
           IN [t |-> [t EXCEPT !.heap = r.h,
                               !.lines = SubSeq(@, 1, k - 1) \o <<r.s>> \o SubSeq(@, kEnd + 1, Len(@)),
                               !.row = startRow, !.col = startCol],
               deleted |-> head \o Mid(1) \o SubSeq(last, 1, endCol)]

deleteRange(t, startRow, startCol, endRow, endCol) ==
  IF t.panicked THEN [t |-> t, deleted |-> <<>>]
  ELSE IF startRow = endRow THEN DeleteSingle(t, startRow, startCol, endCol)
  ELSE DeleteMulti(t, startRow, startCol, endRow, endCol)

\* insertAt's loop over the middle lines: each is a fresh slice inserted after
\* the previous one; k is the index of the element inserted last
RECURSIVE InsertMiddle(_, _, _, _)
InsertMiddle(t, k, parts, i) ==
  IF i > Len(parts) - 1 THEN [t |-> t, k |-> k]
  ELSE LET r == RunesOf(t.heap, parts[i])
       IN InsertMiddle([t EXCEPT !.heap = r.h, !.lines = InsertLineAfter(@, k, r.s)],
                       k + 1, parts, i + 1)

insertAt(t0, s, row, col) ==
  IF t0.panicked \/ s = <<>> THEN t0
  ELSE
    LET k0 == LineIdx(t0, row)
        t == IF k0 = 0 THEN [t0 EXCEPT !.lines = Append(@, NilSlice)] ELSE t0
        k == IF k0 = 0 THEN Len(t.lines) ELSE k0
        parts == Split(s)
        origin == t.lines[k]
    IN IF Len(parts) = 1
         THEN LET r == SlicesInsert(t.heap, origin, col, parts[1])
              IN IF r.panic THEN Panic(t)
                 ELSE [t EXCEPT !.heap = r.h, !.lines[k] = r.s,
                                !.row = row, !.col = col + Len(parts[1])]
       ELSE IF col < 0 \/ col > SliceCap(t.heap, origin) THEN Panic(t)
       ELSE
         LET r1 == GoAppend(t.heap, [origin EXCEPT !.n = col], parts[1])
             t1 == [t EXCEPT !.heap = r1.h, !.lines[k] = r1.s]
             m == InsertMiddle(t1, k, parts, 2)
         IN IF col > origin.n THEN Panic(t)
            ELSE
              LET rest == SliceText(m.t.heap, [origin EXCEPT !.o = @ + col, !.n = @ - col])
                  c == RunesOf(m.t.heap, parts[Len(parts)])
                  r2 == GoAppend(c.h, c.s, rest)
              IN [m.t EXCEPT !.heap = r2.h, !.lines = InsertLineAfter(@, m.k, r2.s),
                             !.row = @ + Len(parts) - 1,
                             !.col = Len(parts[Len(parts)])]

\* ------------------------------------------------------------ edit journal
\* An Edit's time field holds the ticks elapsed since it was stamped, capped
\* at Second: recordEdit only asks whether less than a second has passed.
Edit(kind, row, col, oldText, newText) ==
  [kind |-> kind, row |-> row, col |-> col, oldText |-> oldText, newText |-> newText,
   time |-> Second]

reverse(e) ==
  IF e.kind = editInsert THEN Edit(editDelete, e.row, e.col, e.newText, <<>>)
  ELSE IF e.kind = editDelete THEN Edit(editInsert, e.row, e.col, <<>>, e.oldText)
  ELSE Edit(editReplace, e.row, e.col, e.newText, e.oldText)

\* the deleteRange call shared by applyEdit's Delete and Replace cases
ApplyDelete(t, e) ==
  LET parts == Split(e.oldText) IN
  IF Len(parts) = 1
    THEN deleteRange(t, e.row, e.col, e.row, e.col + ByteLen(e.oldText)).t
    ELSE deleteRange(t, e.row, e.col, e.row + Len(parts) - 1, ByteLen(parts[Len(parts)])).t

applyEdit(t, e) ==
  IF e.kind = editInsert THEN insertAt(t, e.newText, e.row, e.col)
  ELSE IF e.kind = editDelete THEN ApplyDelete(t, e)
  ELSE insertAt(ApplyDelete(t, e), e.newText, e.row, e.col)

\* undoStack is the backing array of the Go slice (every slot written so far)
\* and undoLen its length; lastEdit is the slot the pointer refers to, 0 for nil.
UndoEntries(t) == SubSeq(t.undoStack, 1, t.undoLen)

undo(t) ==
  IF t.undoLen = 0 THEN t
  ELSE LET e == t.undoStack[t.undoLen]
           t1 == applyEdit([t EXCEPT !.undoLen = @ - 1], reverse(e))
       IN [t1 EXCEPT !.redoStack = Append(@, e)]

redo(t) ==
  IF Len(t.redoStack) = 0 THEN t
  ELSE LET e == t.redoStack[Len(t.redoStack)]
           t1 == applyEdit([t EXCEPT !.redoStack = SubSeq(@, 1, Len(@) - 1)], e)
       IN [t1 EXCEPT !.undoStack = IF t.undoLen + 1 <= Len(@)
                                     THEN [@ EXCEPT ![t.undoLen + 1] = e]
                                     ELSE Append(@, e),
                     !.undoLen = @ + 1]

PushEdit(t, e) ==
  [t EXCEPT !.undoStack = Append(SubSeq(@, 1, t.undoLen), [e EXCEPT !.time = 0]),
            !.undoLen = @ + 1,
            !.redoStack = <<>>,
            !.lastEdit = t.undoLen + 1]

recordEdit(t, e) ==
  IF t.panicked THEN t
  ELSE IF t.lastEdit # 0 /\ e.kind = t.undoStack[t.lastEdit].kind
          /\ e.kind # editReplace
          /\ e.row = t.undoStack[t.lastEdit].row
          /\ t.undoStack[t.lastEdit].time < Second
    THEN LET le == t.undoStack[t.lastEdit] IN
         IF e.kind = editInsert /\ le.col + ByteLen(le.newText) = e.col
           THEN [t EXCEPT !.undoStack[t.lastEdit] =
                            [le EXCEPT !.newText = @ \o e.newText, !.time = 0]]
         ELSE IF e.kind = editDelete /\ e.col = le.col - ByteLen(e.oldText)
           THEN [t EXCEPT !.undoStack[t.lastEdit] =
                            [le EXCEPT !.oldText = e.oldText \o @, !.col = e.col, !.time = 0]]
         ELSE PushEdit(t, e)
    ELSE PushEdit(t, e)

\* ------------------------------------------------------------- editorEvent
unselect(t) == IF selected(t) = <<>> THEN t ELSE [t EXCEPT !.selection = <<>>]

\* an Enter / line join that would leave the journal alone
KeepJournal(t) == t

ClearJournal(t) == [t EXCEPT !.lastEdit = 0, !.undoStack = <<>>, !.undoLen = 0,
                             !.redoStack = <<>>]

\* the part of the KeyRune case that types over a selection
RuneOverSelection(t, sel, r) ==
  LET d == deleteRange(t, sel[1], sel[2], sel[3], sel[4])
      t1 == [d.t EXCEPT !.selection = <<>>]
      k == LineIdx(t1, t1.row)
  IN IF t1.panicked \/ k = 0 THEN Panic(t1)
     ELSE LET ins == SlicesInsert(t1.heap, t1.lines[k], t1.col, <<r>>)
          IN IF ins.panic THEN Panic(t1)
             ELSE recordEdit([t1 EXCEPT !.heap = ins.h, !.lines[k] = ins.s,
                                        !.col = @ + RuneLen(r)],
                             Edit(editReplace, sel[1], sel[2], d.deleted, <<r>>))

KeyRune(t, r) ==
  LET k == LineIdx(t, t.row)
      sel == selected(t)
  IN IF k = 0
       THEN LET m == MakeSlice(t.heap, <<r>>, 1)
                t1 == recordEdit([t EXCEPT !.heap = m.h, !.lines = Append(@, m.s)],
                                 Edit(editInsert, t.row, t.col, <<>>, <<r>>))
            IN [t1 EXCEPT !.col = @ + 1]
     ELSE IF sel # <<>> THEN RuneOverSelection(t, sel, r)
     ELSE LET ins == SlicesInsert(t.heap, t.lines[k], t.col, <<r>>)
          IN IF ins.panic THEN Panic(t)
             ELSE jump(recordEdit([t EXCEPT !.heap = ins.h, !.lines[k] = ins.s],
                                  Edit(editInsert, t.row, t.col, <<>>, <<r>>)),
                       t.row, t.col + 1)

KeyTAB(t) ==
  LET t1 == recordEdit(t, Edit(editInsert, t.row, t.col, <<>>, <<TAB>>))
      k == LineIdx(t1, t1.row)
  IN IF k = 0
       THEN LET m == MakeSlice(t1.heap, <<TAB>>, 1)
            IN [t1 EXCEPT !.heap = m.h, !.lines = Append(@, m.s)]
     ELSE LET ins == SlicesInsert(t1.heap, t1.lines[k], t1.col, <<TAB>>)
          IN IF ins.panic THEN Panic(t1)
             ELSE [t1 EXCEPT !.heap = ins.h, !.lines[k] = ins.s, !.col = @ + 1]

KeyBacktab(t) ==
  LET k == LineIdx(t, t.row) IN
  IF k = 0 THEN t
  ELSE LET line == LineText(t, k) IN
       IF Len(line) > 0 /\ line[1] = TAB
         THEN recordEdit([t EXCEPT !.lines[k] = [@ EXCEPT !.o = @ + 1, !.n = @ - 1],
                                   !.col = @ - 1],
                         Edit(editDelete, t.row, 0, <<TAB>>, <<>>))
       ELSE t

\* rapid: time.Since(timeLastKey) < 10ms
KeyEnter(t0, rapid) ==
  LET t == ClearJournal(t0)
      k == LineIdx(t, t.row)
  IN IF k = 0
       THEN LET t1 == [t EXCEPT !.lines = Append(@, NilSlice), !.row = @ + 1]
            IN jump(t1, t1.row, t1.col)
     ELSE IF t.col < 0 \/ t.col > t.lines[k].n THEN Panic(t)
     ELSE
       LET s == t.lines[k]
           line == LineText(t, k)
           n == leadingWhitespaces(SubSeq(line, 1, t.col))
           tail == SubSeq(line, t.col + 1, Len(line))
           new == IF n = 0 \/ rapid
                    THEN [h |-> t.heap, s |-> [s EXCEPT !.o = @ + t.col, !.n = @ - t.col]]
                    ELSE MakeSlice(t.heap, SubSeq(line, 1, n) \o tail,
                                   RoundUpCap(n + Len(tail)))
           t1 == [t EXCEPT !.heap = new.h,
                           !.lines = InsertLineAfter([@ EXCEPT ![k] = [s EXCEPT !.n = t.col]],
                                                     k, new.s),
                           !.col = n, !.row = @ + 1]
       IN jump(t1, t1.row, t1.col)

KeyBackspace(t) ==
  LET sel == selected(t) IN
  IF sel # <<>>
    THEN LET d == deleteRange(t, sel[1], sel[2], sel[3], sel[4])
         IN recordEdit([d.t EXCEPT !.selection = <<>>],
                       Edit(editDelete, sel[1], sel[2], d.deleted, <<>>))
  ELSE IF t.col = 0
    THEN IF t.row = 0 THEN t
         ELSE LET t1 == ClearJournal(t)
                  k == LineIdx(t1, t1.row)
              IN IF k <= 1 THEN Panic(t1)
                 ELSE LET r == GoAppend(t1.heap, t1.lines[k - 1], LineText(t1, k))
                          t2 == [t1 EXCEPT !.heap = r.h,
                                           !.lines = RemoveLines([@ EXCEPT ![k - 1] = r.s], k, k),
                                           !.col = t1.lines[k - 1].n,
                                           !.row = @ - 1]
                      IN jump(t2, t2.row, t2.col)
  ELSE LET k == LineIdx(t, t.row) IN
       IF k = 0 THEN Panic(t)
       ELSE IF t.col - 1 < 0 \/ t.col - 1 >= t.lines[k].n THEN Panic(t)
       ELSE LET line == LineText(t, k)
                s == t.lines[k]
                h1 == WriteCells(t.heap, s.a, s.o + t.col - 1,
                                 SubSeq(line, t.col + 1, Len(line)))
                t1 == recordEdit([t EXCEPT !.heap = h1, !.lines[k] = [s EXCEPT !.n = @ - 1]],
                                 Edit(editDelete, t.row, t.col - 1, <<line[t.col]>>, <<>>))
                t2 == [t1 EXCEPT !.col = @ - 1]
            IN jump(t2, t2.row, t2.col)

KeyLeft(t0) ==
  LET t == [t0 EXCEPT !.lastEdit = 0]
      sel == selected(t)
  IN IF sel # <<>> THEN unselect([t EXCEPT !.row = sel[1], !.col = sel[2]])
     ELSE IF t.row = 0 /\ t.col = 0 THEN t
     ELSE IF t.col = 0 THEN jump(t, t.row - 1, -1)
     ELSE jump(t, t.row, t.col - 1)

KeyRight(t0, meta) ==
  LET t == [t0 EXCEPT !.lastEdit = 0]
      sel == selected(t)
      k == LineIdx(t, t.row)
  IN IF sel # <<>> THEN unselect([t EXCEPT !.row = sel[3], !.col = sel[4]])
     ELSE IF meta THEN jump(t, t.row, -1)
     ELSE IF k = 0 THEN t
     ELSE IF t.col < t.lines[k].n THEN jump(t, t.row, t.col + 1)
     ELSE IF k = Len(t.lines) THEN t
     ELSE jump(t, t.row + 1, 0)

\* the column bookkeeping shared by the KeyUp and KeyDown cases, after the row moved
UpDownColumn(t) ==
  LET k == LineIdx(t, t.row) IN
  IF k = 0 THEN Panic(t)
  ELSE LET n == t.lines[k].n
           t1 == IF n = 0 THEN [t EXCEPT !.col = 0]
                 ELSE IF t.upDownCol >= 0 THEN [t EXCEPT !.col = Min(n, t.upDownCol)]
                 ELSE [t EXCEPT !.upDownCol = t.col, !.col = Min(n, t.col)]
       IN jump(t1, t1.row, t1.col)

KeyUp(t0, meta) ==
  LET t == unselect([t0 EXCEPT !.lastEdit = 0]) IN
  IF t.row = 0 THEN t
  ELSE IF meta THEN jump(t, 0, 0)
  ELSE UpDownColumn([t EXCEPT !.row = @ - 1])

KeyDown(t0, meta) ==
  LET t == unselect([t0 EXCEPT !.lastEdit = 0]) IN
  IF t.row = Len(t.lines) - 1 THEN t
  ELSE IF meta THEN jump(t, -1, -1)
  ELSE UpDownColumn([t EXCEPT !.row = @ + 1])

KeyHome(t0) ==
  LET t == unselect([t0 EXCEPT !.lastEdit = 0])
      k == LineIdx(t, t.row)
  IN IF k = 0 THEN t
     ELSE LET line == LineText(t, k)
              n == leadingWhitespaces(line)
          IN jump(t, t.row, IF n < Len(line) THEN n ELSE t.col)

KeyEnd(t0) ==
  LET t == unselect([t0 EXCEPT !.lastEdit = 0]) IN jump(t, t.row, -1)

KeyCtrlA(t) ==
  LET k == LineIdx(t, t.row) IN
  IF k = 0 THEN t ELSE jump(t, t.row, leadingWhitespaces(LineText(t, k)))

KeyCtrlE(t) == jump(t, t.row, -1)

KeyPgUp(t0) ==
  LET t == unselect(t0)
      row == IF t.row - (EditorH - 2) < 0 THEN 0 ELSE t.row - (EditorH - 2)
  IN jump([t EXCEPT !.row = row], row, t.col)

KeyPgDn(t0) ==
  LET t == unselect(t0)
      row == IF t.row + (EditorH - 2) >= Len(t.lines) THEN Len(t.lines) - 1
             ELSE t.row + (EditorH - 2)
  IN jump([t EXCEPT !.row = row], row, t.col)

\* line[i:j]: the bounds are checked against the capacity, so cells past the
\* length (left by earlier edits) can be read
SliceRange(h, s, i, j) ==
  IF i < 0 \/ i > j \/ j > SliceCap(h, s) THEN [txt |-> <<>>, panic |-> TRUE]
  ELSE [txt |-> IF i = j THEN <<>> ELSE SubSeq(h[s.a], s.o + i + 1, s.o + j), panic |-> FALSE]

\* the multi-line loop of the KeyCtrlC case
RECURSIVE CopyRows(_, _, _, _)
CopyRows(t, sel, i, k) ==
  IF i > sel[3] \/ k = 0 \/ k > Len(t.lines) THEN [txt |-> <<>>, panic |-> FALSE]
  ELSE LET s == t.lines[k]
           rest == CopyRows(t, sel, i + 1, k + 1)
       IN IF i = sel[1]
            THEN LET c == SliceRange(t.heap, s, sel[2], s.n)
                 IN [txt |-> c.txt \o <<NL>> \o rest.txt, panic |-> c.panic \/ rest.panic]
          ELSE IF i = sel[3]
            THEN LET c == SliceRange(t.heap, s, 0, sel[4])
                 IN [txt |-> c.txt, panic |-> c.panic \/ rest.panic]
          ELSE [txt |-> LineText(t, k) \o <<NL>> \o rest.txt, panic |-> rest.panic]

KeyCtrlC(t) ==
  LET sel == selected(t) IN
  IF sel # <<>>
    THEN LET k == LineIdx(t, sel[1]) IN
         IF sel[1] = sel[3]
           THEN IF k = 0 THEN Panic(t)
                ELSE LET c == SliceRange(t.heap, t.lines[k], sel[2], sel[4])
                     IN IF c.panic THEN Panic(t) ELSE [t EXCEPT !.clipboard = c.txt]
         ELSE LET c == CopyRows(t, sel, sel[1], k)
              IN IF c.panic THEN Panic(t) ELSE [t EXCEPT !.clipboard = c.txt]
  ELSE LET k == LineIdx(t, t.row) IN
       IF k = 0 THEN t
       ELSE IF t.lines[k].n = 0 THEN t
       ELSE [t EXCEPT !.clipboard = LineText(t, k)]

KeyCtrlX(t) ==
  LET sel == selected(t) IN
  IF sel # <<>>
    THEN LET d == deleteRange(t, sel[1], sel[2], sel[3], sel[4])
             t1 == recordEdit([d.t EXCEPT !.selection = <<>>],
                              Edit(editDelete, sel[1], sel[2], d.deleted, <<>>))
         IN IF t1.panicked THEN t1 ELSE [t1 EXCEPT !.clipboard = d.deleted]
  ELSE LET k == LineIdx(t, t.row) IN
       IF k = 0 THEN t
       ELSE IF t.lines[k].n = 0 THEN t
       ELSE LET d == deleteRange(t, t.row, 0, t.row, t.lines[k].n)
            IN IF d.t.panicked THEN d.t
               ELSE recordEdit([d.t EXCEPT !.clipboard = d.deleted],
                               Edit(editDelete, t.row, 0, d.deleted, <<>>))

KeyCtrlV(t) ==
  LET sel == selected(t) IN
  IF t.clipboard = <<>> THEN t
  ELSE IF sel # <<>>
    THEN LET d == deleteRange(t, sel[1], sel[2], sel[3], sel[4])
             t1 == insertAt([d.t EXCEPT !.selection = <<>>], t.clipboard, sel[1], sel[2])
         IN recordEdit(t1, Edit(editReplace, sel[1], sel[4], d.deleted, t.clipboard))
  ELSE recordEdit(insertAt(t, t.clipboard, t.row, t.col),
                  Edit(editInsert, t.row, t.col, <<>>, t.clipboard))

KeyEscape(t) == [t EXCEPT !.selection = <<>>]

\* ------------------------------------------------------ navigation history
recordPositon(t, row, col) ==
  [t EXCEPT !.backStack = @ \o <<row, col>>, !.forwardStack = <<>>]

\* a goBack that would not remember where it came from
goBackForgets(t) ==
  LET n == Len(t.backStack) IN
  IF n < 2 THEN t
  ELSE [jump(t, t.backStack[n - 1], t.backStack[n]) EXCEPT !.backStack = SubSeq(@, 1, n - 2)]

goBack(t) ==
  LET n == Len(t.backStack) IN
  IF n < 2 THEN t
  ELSE LET t1 == jump([t EXCEPT !.forwardStack = @ \o <<t.row, t.col>>],
                      t.backStack[n - 1], t.backStack[n])
       IN [t1 EXCEPT !.backStack = SubSeq(@, 1, n - 2)]

goForward(t) ==
  LET n == Len(t.forwardStack) IN
  IF n < 2 THEN t
  ELSE LET t1 == jump([t EXCEPT !.backStack = @ \o <<t.row, t.col>>],
                      t.forwardStack[n - 1], t.forwardStack[n])
       IN [t1 EXCEPT !.forwardStack = SubSeq(@, 1, n - 2)]

\* --------------------------------------------------------------- the mouse
\* handleClick on the editor area: x is the screen column, dy the editor row
handleClick(t0, x, dy) ==
  LET t == [t0 EXCEPT !.focus = "editor"]
      t1 == IF Len(t.lines) = 0 THEN [t EXCEPT !.row = 0, !.col = 0]
            ELSE LET row == Min(dy + t.top, Len(t.lines) - 1)
                     k == LineIdx(t, row)
                     col == columnFromScreenWidth(LineText(t, k), x - lineNumLen(t) + t.left)
                 IN [recordPositon(t, t.row, t.col) EXCEPT !.row = row, !.col = col]
  IN IF ~t1.selecting
       THEN [t1 EXCEPT !.selection = <<t1.row, t1.col, t1.row, t1.col>>,
                       !.selecting = TRUE, !.upDownCol = -1]
     ELSE IF t1.selection = <<>> THEN Panic(t1)
     ELSE [t1 EXCEPT !.selection = <<@[1], @[2], t1.row, t1.col>>, !.upDownCol = -1]

\* the ButtonNone case of the event loop
ButtonNone(t) ==
  IF ~t.selecting THEN t
  ELSE LET s == t.selection IN
       [t EXCEPT !.selecting = FALSE,
                 !.selection = IF s # <<>> /\ s[1] = s[3] /\ s[2] = s[4] THEN <<>> ELSE s]

\* ------------------------------------------------------- garbage collection
\* Arrays no line refers to, and the cells before the first slice of an array,
\* cannot be reached again: arrays are renumbered in the order the lines refer
\* to them, so that equal memory layouts are equal states.
NormSlice(h, s) == IF s.a # 0 /\ SliceCap(h, s) = 0 THEN NilSlice ELSE s

RECURSIVE ArrOrder(_, _, _)
ArrOrder(ls, k, acc) ==
  IF k > Len(ls) THEN acc
  ELSE ArrOrder(ls, k + 1,
         IF ls[k].a = 0 \/ (\E i \in 1..Len(acc) : acc[i] = ls[k].a) THEN acc
         ELSE Append(acc, ls[k].a))

MinOff(ls, a) ==
  LET offs == {ls[k].o : k \in {j \in 1..Len(ls) : ls[j].a = a}}
  IN CHOOSE m \in offs : \A x \in offs : m <= x

Canon(t) ==
  LET ls == [k \in 1..Len(t.lines) |-> NormSlice(t.heap, t.lines[k])]
      order == ArrOrder(ls, 1, <<>>)
      Idx(a) == CHOOSE i \in 1..Len(order) : order[i] = a
  IN [t EXCEPT
        !.heap = [i \in 1..Len(order) |->
                    SubSeq(t.heap[order[i]], MinOff(ls, order[i]) + 1, Len(t.heap[order[i]]))],
        !.lines = [k \in 1..Len(ls) |->
                    IF ls[k].a = 0 THEN ls[k]
                    ELSE [a |-> Idx(ls[k].a), o |-> ls[k].o - MinOff(ls, ls[k].a),
                          n |-> ls[k].n]]]

\* ---------------------------------------------------------------- tabs
\* A Tab object is known by its identity. State.tabs is the sequence of the
\* identities; the fields of the Tab that State.Tab points to are the fields
\* of t itself, those of the other tabs are kept in t.parked.
Range(q) == {q[i] : i \in 1..Len(q)}

Fields(t) ==
  [heap |-> t.heap, lines |-> t.lines, row |-> t.row, col |-> t.col, top |-> t.top,
   left |-> t.left, upDownCol |-> t.upDownCol, selecting |-> t.selecting,
   selection |-> t.selection, undoStack |-> t.undoStack, undoLen |-> t.undoLen,
   redoStack |-> t.redoStack, lastEdit |-> t.lastEdit, backStack |-> t.backStack,
   forwardStack |-> t.forwardStack, filename |-> t.filename, symbols |-> t.symbols]

Load(t, f) ==
  [t EXCEPT !.heap = f.heap, !.lines = f.lines, !.row = f.row, !.col = f.col,
            !.top = f.top, !.left = f.left, !.upDownCol = f.upDownCol,
            !.selecting = f.selecting, !.selection = f.selection,
            !.undoStack = f.undoStack, !.undoLen = f.undoLen,
            !.redoStack = f.redoStack, !.lastEdit = f.lastEdit,
            !.backStack = f.backStack, !.forwardStack = f.forwardStack,
            !.filename = f.filename, !.symbols = f.symbols]

\* &Tab{filename: name, lines: ls}
TabLit(name, h, ls) ==
  [heap |-> h, lines |-> ls, row |-> 0, col |-> 0, top |-> 0, left |-> 0,
   upDownCol |-> 0, selecting |-> FALSE, selection |-> <<>>, undoStack |-> <<>>,
   undoLen |-> 0, redoStack |-> <<>>, lastEdit |-> 0, backStack |-> <<>>,
   forwardStack |-> <<>>, filename |-> name, symbols |-> <<>>]

\* the identity of a Tab allocated now
NewId(t) ==
  LET used == Range(t.tabs) \cup {t.tabId}
  IN CHOOSE n \in 1..(Cardinality(used) + 1) :
       n \notin used /\ \A m \in 1..(n - 1) : m \in used

TabName(t, id) == IF id = t.tabId THEN t.filename ELSE t.parked[id].filename

switchTab(t, i) ==
  IF i < 0 \/ i > Len(t.tabs) - 1 THEN t
  ELSE LET id == t.tabs[i + 1] IN
       IF id = t.tabId THEN [t EXCEPT !.tabIdx = i]
       ELSE LET keep == {k \in (DOMAIN t.parked) \cup {t.tabId} :
                           k # id /\ k \in Range(t.tabs)}
                p == [k \in keep |-> IF k = t.tabId THEN Fields(t) ELSE t.parked[k]]
            IN Load([t EXCEPT !.tabIdx = i, !.tabId = id, !.parked = p], t.parked[id])

\* st.tabs = slices.Insert(st.tabs, i, tab), for a tab allocated now
InsertTab(t, i, f) ==
  LET id == NewId(t)
  IN [t EXCEPT !.tabs = SubSeq(@, 1, i) \o <<id>> \o SubSeq(@, i + 1, Len(@)),
               !.parked = [k \in (DOMAIN @) \cup {id} |-> IF k = id THEN f ELSE @[k]]]

closeTab(t, index) ==
  IF index < 0 \/ index >= Len(t.tabs) THEN t
  ELSE LET id == t.tabs[index + 1]
           rest == SubSeq(t.tabs, 1, index) \o SubSeq(t.tabs, index + 2, Len(t.tabs))
           t1 == [t EXCEPT !.tabs = rest,
                           !.parked = [k \in (DOMAIN @) \ {id} |-> @[k]]]
       IN IF rest = <<>> THEN [t1 EXCEPT !.tabIdx = 0]
          ELSE IF index < t.tabIdx THEN [t1 EXCEPT !.tabIdx = @ - 1]
          ELSE IF index = t.tabIdx
            THEN switchTab(t1, IF t.tabIdx >= Len(rest) THEN Len(rest) - 1 ELSE t.tabIdx)
          ELSE t1

\* the lines of every file that ">open" reads
FileDoc == << <<A>> >>

RECURSIVE ScanLines(_, _, _, _)
ScanLines(h, ls, doc, i) ==
  IF i > Len(doc) THEN [h |-> h, ls |-> ls]
  ELSE LET r == RunesOf(h, doc[i]) IN ScanLines(r.h, Append(ls, r.s), doc, i + 1)

\* the "open" case of handleCommand; ok is whether the file could be read
openFile(t, name, ok) ==
  LET found == {j \in 1..Len(t.tabs) : TabName(t, t.tabs[j]) = name} IN
  IF found # {}
    THEN LET j == CHOOSE x \in found : \A y \in found : x <= y
         IN [switchTab(t, j - 1) EXCEPT !.focus = "editor"]
  ELSE IF ~ok THEN t
  ELSE LET r == ScanLines(<<>>, <<>>, FileDoc, 1)
           t1 == InsertTab(t, Len(t.tabs), TabLit(name, r.h, r.ls))
       IN [switchTab(t1, Len(t1.tabs) - 1) EXCEPT !.focus = "editor"]

\* ---------------------------------------------------------- handleCommand
setConsole(t, s) == [t EXCEPT !.console = s, !.consoleCursor = Len(s)]

\* the "save" case; ok is whether os.WriteFile succeeded
CmdSave(t, c, ok) ==
  IF Len(c) = 1 \/ Len(c[2]) = 0
    THEN [setConsole(t, ">save ") EXCEPT !.focus = "console"]
  ELSE LET n == Len(t.lines)
           t1 == IF n = 0 \/ t.lines[n].n # 0
                   THEN [t EXCEPT !.lines = Append(@, NilSlice)] ELSE t
       IN IF ok THEN [t1 EXCEPT !.filename = c[2], !.focus = "editor"] ELSE t1

\* a goto-line that would leave the range check to jump
CmdGotoClamped(t, arg) ==
  LET line == Atoi(arg) IN
  IF line.err THEN t ELSE jump([t EXCEPT !.focus = "editor"], line.n - 1, 0)

\* a goto-line that would count rows from 0
CmdGotoZeroBased(t, arg) ==
  LET line == Atoi(arg) IN
  IF line.err THEN t
  ELSE IF line.n < 1 \/ line.n > Len(t.lines) THEN t
  ELSE jump([t EXCEPT !.focus = "editor"], line.n, 0)

\* the ':' case
CmdGoto(t, arg) ==
  LET line == Atoi(arg) IN
  IF line.err THEN t
  ELSE IF line.n < 1 \/ line.n > Len(t.lines) THEN t
  ELSE jump([t EXCEPT !.focus = "editor"], line.n - 1, 0)

\* the Symbol that the loop of the '@' case leaves in matched
NoSymbol == [Name |-> "", Receiver |-> "", Line |-> 0, Column |-> 0]

RECURSIVE Matched(_, _, _)
Matched(syms, receiver, m) ==
  IF Len(syms) = 0 THEN m
  ELSE Matched(Tail(syms), receiver,
               IF Head(syms).Receiver = receiver THEN Head(syms) ELSE m)

\* the '@' case
CmdSymbol(t, arg) ==
  LET i == Index(arg, ".")
      receiver == IF i >= 0 THEN SubSeq(arg, 1, i) ELSE ""
      name == IF i >= 0 THEN SubSeq(arg, i + 2, Len(arg)) ELSE arg
      matched == Matched(IF name \in DOMAIN t.symbols THEN t.symbols[name] ELSE <<>>,
                         receiver, NoSymbol)
      t1 == jump(recordPositon(t, t.row, t.col), matched.Line - 1, matched.Column - 1)
  IN [t1 EXCEPT !.focus = "editor", !.console = ""]

\* The '#' case.  The lines the loop visits, in order, each with the values
\* of its variables row and col: from the cursor's line to the last one, then
\* from the first line to the one before the cursor's line.
FindVisits(t) ==
  LET n == Len(t.lines)
      k0 == LineIdx(t, t.row)
  IN IF k0 = 0 THEN [i \in 1..n |-> [k |-> i, row |-> i - 1, col |-> 0]]
     ELSE [i \in 1..n |->
             IF i <= n - k0 + 1
               THEN [k |-> k0 + i - 1, row |-> t.row + i - 1,
                     col |-> IF i = 1 THEN t.col ELSE 0]
             ELSE [k |-> i - (n - k0 + 1), row |-> i - (n - k0 + 1) - 1, col |-> 0]]

\* strings.Index(strings.ToLower(line[col:]), strings.ToLower(string(keyword)))
\* for one visit: line is a string and col cuts it at a byte
FindIn(t, v, keyword) ==
  LET line == Bytes(LineText(t, v.k)) IN
  IF v.col < 0 \/ v.col > Len(line) THEN [panic |-> TRUE, i |-> -1]
  ELSE [panic |-> FALSE,
        i |-> Index(ToLowerBytes(SubSeq(line, v.col + 1, Len(line))),
                    ToLowerBytes(Bytes(keyword)))]

RECURSIVE FindFirst(_, _, _)
FindFirst(t, visits, keyword) ==
  IF Len(visits) = 0 THEN [panic |-> FALSE, found |-> FALSE]
  ELSE LET r == FindIn(t, Head(visits), keyword) IN
       IF r.panic THEN [panic |-> TRUE, found |-> FALSE]
       ELSE IF r.i >= 0
         THEN [panic |-> FALSE, found |-> TRUE, row |-> Head(visits).row,
               col |-> Head(visits).col + r.i]
       ELSE FindFirst(t, Tail(visits), keyword)

\* the loop of the '#' case never ends: a.s.line(row) is nil for a row past
\* the last line, no element of the list equals it, and nothing matches
FindDiverges(t, cmd0) ==
  LET cmd == TrimSpace(cmd0) IN
  /\ Len(cmd) > 1 /\ SubSeq(cmd, 1, 1) = "#"
  /\ Len(t.lines) > 0 /\ LineIdx(t, t.row) = 0
  /\ LET r == FindFirst(t, FindVisits(t), Runes(SubSeq(cmd, 2, Len(cmd))))
     IN ~r.panic /\ ~r.found

\* a find that would give up without restoring the console
CmdFindDropsInput(t, cmd) ==
  LET keyword == Runes(SubSeq(cmd, 2, Len(cmd)))
      r == FindFirst(t, FindVisits(t), keyword)
  IN IF Len(keyword) = 0 \/ r.panic \/ ~r.found THEN t
     ELSE LET t1 == jump(recordPositon(t, t.row, t.col), r.row, r.col + Len(keyword))
          IN setConsole([t1 EXCEPT !.selection =
                           <<r.row, r.col, r.row, r.col + Len(keyword)>>], cmd)

CmdFind(t, cmd) ==
  LET keyword == Runes(SubSeq(cmd, 2, Len(cmd)))
      r == FindFirst(t, FindVisits(t), keyword)
  IN IF Len(keyword) = 0 THEN t
     ELSE IF r.panic THEN Panic(t)
     ELSE IF ~r.found THEN setConsole(t, cmd)
     ELSE LET t1 == jump(recordPositon(t, t.row, t.col), r.row, r.col + Len(keyword))
          IN setConsole([t1 EXCEPT !.selection =
                           <<r.row, r.col, r.row, r.col + Len(keyword)>>], cmd)

\* ok is whether the file system call of the command succeeded
handleCommand(t, cmd0, ok) ==
  LET cmd == TrimSpace(cmd0)
      rest == SubSeq(cmd, 2, Len(cmd))
      c == StringsSplit(rest, " ")
  IN IF Len(cmd) = 0 THEN Panic(t)
     ELSE IF SubSeq(cmd, 1, 1) = ">"
       THEN IF c[1] = "open"
              THEN (IF Len(c) = 1 \/ Len(c[2]) = 0 THEN t ELSE openFile(t, c[2], ok))
            ELSE IF c[1] = "save" THEN CmdSave(t, c, ok)
            ELSE IF c[1] = "linenumber"
              THEN jump([t EXCEPT !.lineNumber = ~@, !.focus = "editor"], t.row, t.col)
            ELSE IF c[1] = "bottom" THEN jump([t EXCEPT !.focus = "editor"], -1, -1)
            ELSE IF c[1] = "back" THEN goBack([t EXCEPT !.focus = "editor"])
            ELSE IF c[1] = "forward" THEN goForward([t EXCEPT !.focus = "editor"])
            ELSE t
     ELSE IF SubSeq(cmd, 1, 1) = ":" THEN CmdGoto(t, rest)
     ELSE IF SubSeq(cmd, 1, 1) = "@" THEN CmdSymbol(t, rest)
     ELSE IF SubSeq(cmd, 1, 1) = "#" THEN CmdFind(t, cmd)
     ELSE t

\* the message handleCommand draws in the status bar with drawStatus, "" if none
StatusOf(t, cmd0, ok) ==
  LET cmd == TrimSpace(cmd0)
      rest == SubSeq(cmd, 2, Len(cmd))
      c == StringsSplit(rest, " ")
      line == Atoi(rest)
  IN IF Len(cmd) = 0 THEN ""
     ELSE IF SubSeq(cmd, 1, 1) = ":"
       THEN (IF line.err THEN "Invalid line number"
             ELSE IF line.n < 1 \/ line.n > Len(t.lines) THEN "Line number out of range"
             ELSE "")
     ELSE IF SubSeq(cmd, 1, 1) # ">" THEN ""
     ELSE IF c[1] = "save" /\ Len(c) > 1 /\ Len(c[2]) > 0
       THEN (IF ok THEN "File saved as: " ELSE "Failed to save file: ")
     ELSE IF c[1] = "open" /\ Len(c) > 1 /\ Len(c[2]) > 0
          /\ ~ok /\ \A j \in 1..Len(t.tabs) : TabName(t, t.tabs[j]) # c[2]
       THEN "open: error"
     ELSE IF c[1] \in {"open", "save", "linenumber", "bottom", "back", "forward"} THEN ""
     ELSE "unknown command: "

\* ----------------------------------------------------------- consoleEvent
\* the order of two strings in slices.Sort: byte by byte; the bytes of a rune
\* that is not ASCII are above every ASCII byte
ByteRank(c) ==
  LET i == Index(" #.0123456789:>@ABCabc", c) IN IF i >= 0 THEN i ELSE 128

RECURSIVE Less(_, _)
Less(x, y) ==
  IF Len(y) = 0 THEN FALSE
  ELSE IF Len(x) = 0 THEN TRUE
  ELSE IF SubSeq(x, 1, 1) # SubSeq(y, 1, 1)
    THEN ByteRank(SubSeq(x, 1, 1)) < ByteRank(SubSeq(y, 1, 1))
  ELSE Less(SubSeq(x, 2, Len(x)), SubSeq(y, 2, Len(y)))

Sort(f) ==
  LET Pos(i) == Cardinality({j \in 1..Len(f) : Less(f[j], f[i])})
                + Cardinality({j \in 1..(i - 1) : f[j] = f[i]}) + 1
  IN [p \in 1..Len(f) |-> f[CHOOSE i \in 1..Len(f) : Pos(i) = p]]

\* the elements of f that satisfy Keep, in the order of f
Filter(f, Keep(_)) ==
  LET kept == {i \in 1..Len(f) : Keep(f[i])}
  IN [p \in 1..Cardinality(kept) |->
        f[CHOOSE i \in kept : Cardinality({j \in kept : j < i}) = p - 1]]

\* the loop "move the relevant forward": filter[i] and filter[j] are swapped
\* for every i (from 0) whose element begins with the keyword; atStart[i] is
\* whether the element the loop finds at i does (no swap has moved it yet)
RECURSIVE MoveForward(_, _, _, _)
MoveForward(filter, atStart, i, j) ==
  IF i > Len(filter) THEN filter
  ELSE IF atStart[i]
    THEN MoveForward([filter EXCEPT ![i] = filter[j], ![j] = filter[i]], atStart,
                     i + 1, j + 1)
  ELSE MoveForward(filter, atStart, i + 1, j)

\* the names that the '@' cases range over: one per Symbol of the index
SymbolName(sym) ==
  IF sym.Receiver # "" THEN sym.Receiver \o "." \o sym.Name ELSE sym.Name

RECURSIVE AllNames(_, _)
AllNames(index, keys) ==
  IF keys = {} THEN <<>>
  ELSE LET k == CHOOSE x \in keys : TRUE
       IN [i \in 1..Len(index[k]) |-> SymbolName(index[k][i])]
          \o AllNames(index, keys \ {k})

\* the '@' case of KeyRune and Backspace, from the filter on
SymbolOptions(t, keyword) ==
  LET Has(name) == Index(ToLower(name), ToLower(keyword)) >= 0
      AtStart(name) == Index(ToLower(name), ToLower(keyword)) = 0
      filter == Filter(AllNames(t.symbols, DOMAIN t.symbols), Has)
  IN IF Len(filter) = 0 THEN [t EXCEPT !.options = <<>>]
     ELSE LET sorted == Sort(filter) IN
          [t EXCEPT !.options = MoveForward(sorted,
                                  [i \in 1..Len(sorted) |-> AtStart(sorted[i])], 1, 1),
                    !.optionIdx = 0]

\* the file search case of KeyRune and Backspace
FileOptions(t) ==
  LET keyword == t.console
      Has(name) == Index(ToLower(name), ToLower(keyword)) >= 0
      AtStart(name) == Index(name, keyword) = 0
      filter == Filter(t.files, Has)
  IN IF Len(t.files) = 0 THEN t
     ELSE IF Len(filter) = 0 THEN [t EXCEPT !.options = <<>>]
     ELSE [t EXCEPT !.options = MoveForward(filter,
                                  [i \in 1..Len(filter) |-> AtStart(filter[i])], 1, 1),
                    !.optionIdx = 0]

\* the deferred function of consoleEvent: syncCursor with the console focused
ConsoleDeferred(t) ==
  IF ~t.panicked /\ t.focus = "console" /\ t.consoleCursor > Len(t.console)
    THEN [t EXCEPT !.consoleCursor = Len(t.console)] ELSE t

exitConsole(t) == [t EXCEPT !.console = "", !.focus = "editor"]

ConsoleKeyRune(t, r) ==
  LET i == t.consoleCursor IN
  IF i < 0 \/ i > Len(t.console) THEN Panic(t)
  ELSE LET t1 == [t EXCEPT !.console = SubSeq(@, 1, i) \o r \o SubSeq(@, i + 1, Len(@)),
                           !.consoleCursor = i + 1]
           first == SubSeq(t1.console, 1, 1)
       IN IF first \in {">", "#", ":"} THEN t1
          ELSE IF first = "@"
            THEN (IF Len(t1.console) = 1 THEN t1
                  ELSE SymbolOptions(t1, SubSeq(t1.console, 2, Len(t1.console))))
          ELSE FileOptions(t1)

ConsoleBackspace(t) ==
  LET i == t.consoleCursor IN
  IF Len(t.console) = 0 THEN t
  ELSE IF i - 1 < 0 \/ i > Len(t.console) THEN Panic(t)
  ELSE LET t1 == [t EXCEPT !.console = SubSeq(@, 1, i - 1) \o SubSeq(@, i + 1, Len(@)),
                           !.consoleCursor = i - 1]
           first == SubSeq(t1.console, 1, 1)
       IN IF Len(t1.console) = 0 THEN [t1 EXCEPT !.options = t.files, !.optionIdx = -1]
          ELSE IF first \in {">", "#", ":"} THEN t1
          ELSE IF first = "@"
            THEN (IF Len(t1.console) = 1 THEN [t1 EXCEPT !.options = <<>>]
                  ELSE SymbolOptions(t1, SubSeq(t1.console, 2, Len(t1.console))))
          ELSE FileOptions(t1)

ConsoleLeft(t) ==
  IF Len(t.console) = 0 THEN t ELSE [t EXCEPT !.consoleCursor = @ - 1]

ConsoleRight(t) ==
  IF Len(t.console) = 0 \/ t.consoleCursor >= Len(t.console) THEN t
  ELSE [t EXCEPT !.consoleCursor = @ + 1]

\* a Tab / Shift-Tab that would stop at the ends of the list
ConsoleTabClamped(t, back) ==
  LET n == Len(t.options) IN
  IF n <= 0 THEN t
  ELSE [t EXCEPT !.optionIdx = IF back THEN Max(0, @ - 1) ELSE Min(n - 1, @ + 1)]

\* KeyTAB (back = FALSE) and KeyBacktab; "%" of Go truncates toward zero
ConsoleTab(t, back) ==
  LET n == Len(t.options)
      x == IF back THEN t.optionIdx - 1 + n ELSE t.optionIdx + 1
  IN IF n <= 0 THEN t
     ELSE [t EXCEPT !.optionIdx = IF x >= 0 THEN x % n ELSE 0 - ((0 - x) % n)]

\* an Enter that would send whatever the console holds
ConsoleEnterLiteral(t) ==
  LET cmd == TrimSpace(t.console) IN
  IF Len(cmd) = 0
    THEN [pre |-> exitConsole(t), sent |-> <<>>, post |-> exitConsole(t)]
  ELSE [pre |-> [t EXCEPT !.console = ""], sent |-> <<cmd>>,
        post |-> [t EXCEPT !.console = ""]]

\* The KeyEnter case: sent is the command it sends on cmdCh, if any; pre is
\* the state when the send begins, post the state when the handler returns.
ConsoleEnter(t) ==
  LET cmd == TrimSpace(t.console)
      picked == Len(t.options) > 0 /\ t.optionIdx >= 0
      Quit == [pre |-> exitConsole(t), sent |-> <<>>, post |-> exitConsole(t)]
      Oops == [pre |-> Panic(t), sent |-> <<>>, post |-> Panic(t)]
      Send(c) == [pre |-> [t EXCEPT !.console = ""], sent |-> <<c>>,
                  post |-> [t EXCEPT !.console = ""]]
  IN IF picked /\ t.optionIdx >= Len(t.options)
          /\ (Len(cmd) = 0 \/ SubSeq(cmd, 1, 1) \notin {"#", ":", ">"}) THEN Oops
     ELSE IF Len(cmd) = 0
       THEN (IF picked
               THEN [pre |-> t, sent |-> <<">open " \o t.options[t.optionIdx + 1]>>,
                     post |-> exitConsole(t)]
             ELSE Quit)
     ELSE IF SubSeq(cmd, 1, 1) \in {"#", ":", ">"}
       THEN (IF Len(cmd) = 1 THEN Quit ELSE Send(cmd))
     ELSE IF ~picked THEN Quit
     ELSE IF SubSeq(cmd, 1, 1) = "@" THEN Send("@" \o t.options[t.optionIdx + 1])
     ELSE Send(">open " \o t.options[t.optionIdx + 1])

\* ------------------------------------------- the keys that open the console
\* Ctrl-O: entries are the names os.ReadDir gives for the files of the folder
\* that do not begin with "."
KeyCtrlO(t, entries) ==
  [setConsole(t, "") EXCEPT !.files = entries, !.options = entries, !.optionIdx = -1,
                            !.focus = "console"]

KeyCtrlG(t) == [setConsole(t, ":") EXCEPT !.focus = "console"]

\* Ctrl-R: index is what ParseSymbol returns, err whether it returns an error
KeyCtrlR(t, index, err) ==
  LET t1 == [setConsole(t, "@") EXCEPT !.focus = "console"] IN
  IF Len(t.tabs) = 0 \/ ~HasSuffix(t.filename, ".go") \/ err THEN t1
  ELSE [t1 EXCEPT !.symbols = index, !.options = <<>>, !.optionIdx = -1]

KeyCtrlF(t) ==
  LET sel == selected(t)
      k == IF sel = <<>> THEN 0 ELSE LineIdx(t, sel[1])
      cut == IF sel # <<>> /\ sel[1] = sel[3] /\ k # 0
               THEN SliceRange(t.heap, t.lines[k], sel[2], sel[4])
             ELSE [txt |-> <<>>, panic |-> FALSE]
  IN IF cut.panic THEN Panic(t)
     ELSE [setConsole(t, "#" \o StringOf(cut.txt)) EXCEPT !.focus = "console"]

\* =================================================================== state
VARIABLES
  heap, lines,            \* Tab.lines: the rune slices of the list, and their arrays
  row, col, top, left,    \* Tab.row, Tab.col, Tab.top, Tab.left
  upDownCol,              \* Tab.upDownCol
  selecting, selection,   \* Tab.selecting, Tab.selection (<<>> is nil)
  undoStack, undoLen,     \* Tab.undoStack: backing array and length
  redoStack, lastEdit,    \* Tab.redoStack, Tab.lastEdit (0 is nil)
  backStack, forwardStack,
  filename,               \* Tab.filename
  tabs, tabIdx,           \* State.tabs (the identities of the Tab objects), State.tabIdx
  tabId, parked,          \* the Tab that State.Tab points to; the fields of the other tabs
  focus,                  \* State.focus
  clipboard, lineNumber,  \* State.clipboard, State.lineNumber
  console, consoleCursor, \* State.console (a string), State.consoleCursor
  options, optionIdx,     \* State.options, State.optionIdx
  files, symbols,         \* State.files; Tab.symbols (name -> its Symbols, in order)
  panicked,               \* the Go runtime panicked: the process is gone
  keyRecent,              \* no time has passed since timeLastKey was set
  cmdCh, done,            \* App.cmdCh (the buffered commands), App.done (closed or not)
  loopPc, pending,        \* the input loop: at its select, or in a send of pending
  consPc, running,        \* commandLoop: at its select, or in handleCommand(running)
  cmdLog,                 \* the commands sent and the commands received, in order
  steps,                  \* events handled and seconds passed so far
  hist                    \* history of the run, read only by the properties

docVars == <<heap, lines, row, col, top, left, upDownCol, selecting, selection,
             undoStack, undoLen, redoStack, lastEdit, backStack, forwardStack,
             filename, tabs, tabIdx, tabId, parked, focus, clipboard, lineNumber,
             console, consoleCursor, options, optionIdx, files, symbols, panicked>>

sessVars == <<tabs, tabIdx, tabId, parked>>

consVars == <<console, consoleCursor, options, optionIdx, files, symbols>>

procVars == <<cmdCh, done, loopPc, pending, consPc, running, cmdLog>>

vars == <<docVars, keyRecent, procVars, steps, hist>>

Tab == [heap |-> heap, lines |-> lines, row |-> row, col |-> col, top |-> top,
        left |-> left, upDownCol |-> upDownCol, selecting |-> selecting,
        selection |-> selection, undoStack |-> undoStack, undoLen |-> undoLen,
        redoStack |-> redoStack, lastEdit |-> lastEdit, backStack |-> backStack,
        forwardStack |-> forwardStack, filename |-> filename,
        tabs |-> tabs, tabIdx |-> tabIdx, tabId |-> tabId, parked |-> parked,
        focus |-> focus, console |-> console, consoleCursor |-> consoleCursor,
        options |-> options, optionIdx |-> optionIdx, files |-> files,
        symbols |-> symbols,
        clipboard |-> clipboard, lineNumber |-> lineNumber, panicked |-> panicked]

SetTab(t) ==
  /\ heap' = t.heap /\ lines' = t.lines /\ row' = t.row /\ col' = t.col
  /\ top' = t.top /\ left' = t.left /\ upDownCol' = t.upDownCol
  /\ selecting' = t.selecting /\ selection' = t.selection
  /\ undoStack' = t.undoStack /\ undoLen' = t.undoLen /\ redoStack' = t.redoStack
  /\ lastEdit' = t.lastEdit /\ backStack' = t.backStack
  /\ forwardStack' = t.forwardStack /\ filename' = t.filename /\ focus' = t.focus
  /\ tabs' = t.tabs /\ tabIdx' = t.tabIdx /\ tabId' = t.tabId /\ parked' = t.parked
  /\ console' = t.console /\ consoleCursor' = t.consoleCursor
  /\ options' = t.options /\ optionIdx' = t.optionIdx /\ files' = t.files
  /\ symbols' = t.symbols
  /\ clipboard' = t.clipboard /\ lineNumber' = t.lineNumber /\ panicked' = t.panicked

RECURSIVE SumLen(_)
SumLen(ls) == IF ls = <<>> THEN 0 ELSE Head(ls).n + SumLen(Tail(ls))

TotalRunes(t) == SumLen(t.lines)

\* the bounds of the model: an event is taken only if the state it leads to
\* stays within them
Bounded(t) ==
  /\ Len(t.lines) <= MaxLines
  /\ TotalRunes(t) <= MaxRunes
  /\ t.undoLen + Len(t.redoStack) <= MaxJournal
  /\ Len(t.backStack) + Len(t.forwardStack) <= 2 * MaxNav
  /\ Len(t.tabs) <= MaxTabs

\* ----------------------------------------------------------------- history
\* hist remembers, for the properties, what the last event did:
\*   phase  "edit": it recorded an edit; "undo": it was Ctrl-Z right after that
\*          edit; "redo": it was Ctrl-Y right after that undo; "move": it only
\*          moved the cursor; "roundtrip": deleteRange then insertAt; "reclose":
\*          it called close(done) on the closed channel; else "none"
\*   pre    content and cursor before the journal entry of that edit began
\*   post   content and cursor right after the edit
\*   whole  pre is known: the entry was pushed by this edit, or by the edits
\*          right before it that this one coalesced with
\*   typed  the event typed a rune with nothing selected: "first", or "cont" /
\*          "late" when the event before it did the same less than / at least a
\*          second earlier
\*   grew   the typed rune added an entry to the undo stack
\*   during the event was handled while handleCommand was running
\*   orphan the event was handled by the editor while State.tabs was empty
\*   args   the arguments of the deleteRange or insertAt call ("delete", "insert")
\*   ret    the string deleteRange returned, or the one insertAt was given
\*   key    the key consoleEvent handled ("console"), or the key that opened the
\*          console ("open")
\*   sent   the commands that handler sent on cmdCh
\*   cmd    the command handleCommand ran ("command"), ok whether its file
\*          system call succeeded, status the message it drew with drawStatus
\*   before the fields of State and of its Tab before the handler or the command
Snap(t) == [content |-> Content(t), row |-> t.row, col |-> t.col]
NoSnap == [content |-> <<>>, row |-> 0, col |-> 0]
NoHist == [phase |-> "none", pre |-> NoSnap, post |-> NoSnap, whole |-> FALSE,
           typed |-> "none", grew |-> FALSE, during |-> FALSE, orphan |-> FALSE,
           args |-> <<>>, ret |-> <<>>, key |-> "", cmd |-> "", ok |-> TRUE,
           status |-> "", sent |-> <<>>, before |-> <<>>]

\* a handler recorded an edit: it called recordEdit (which leaves lastEdit set
\* and either grows an entry's text or pushes)
Recorded(t, t2) ==
  /\ t2.lastEdit # 0
  /\ (t2.undoStack # t.undoStack \/ t2.undoLen # t.undoLen)

HistAfter(kind, t, t2) ==
  LET pushed == t2.undoLen = t.undoLen + 1
      joined == hist.phase = "edit" /\ hist.whole /\ ~pushed
      h == IF kind = "edit" /\ Recorded(t, t2)
             THEN [NoHist EXCEPT !.phase = "edit",
                                 !.pre = IF pushed THEN Snap(t)
                                         ELSE IF joined THEN hist.pre ELSE NoSnap,
                                 !.post = Snap(t2),
                                 !.whole = pushed \/ joined]
           ELSE IF kind = "undo" /\ hist.phase = "edit"
             THEN [hist EXCEPT !.phase = "undo", !.typed = "none", !.grew = FALSE]
           ELSE IF kind = "redo" /\ hist.phase = "undo"
             THEN [hist EXCEPT !.phase = "redo"]
           ELSE IF kind = "move" THEN [NoHist EXCEPT !.phase = "move"]
           ELSE NoHist
  IN [h EXCEPT !.during = (consPc = "run"), !.orphan = (tabs = <<>>)]

\* one event of the input loop, handled to completion; a panic ends the process
Handle(t2, h, kr) ==
  /\ ~panicked
  /\ loopPc = "select"
  /\ steps < MaxSteps
  /\ IF t2.panicked
       THEN /\ panicked' = TRUE
            /\ UNCHANGED <<heap, lines, row, col, top, left, upDownCol, selecting,
                           selection, undoStack, undoLen, redoStack, lastEdit,
                           backStack, forwardStack, filename, focus, clipboard,
                           lineNumber, sessVars, consVars, keyRecent, steps, hist>>
       ELSE /\ Bounded(t2)
            /\ SetTab(Canon(t2))
            /\ keyRecent' = kr
            /\ steps' = steps + 1
            /\ hist' = h
  /\ UNCHANGED procVars

\* the deferred function of editorEvent
Deferred(t, updown) == IF updown \/ t.panicked THEN t ELSE [t EXCEPT !.upDownCol = -1]

\* a key event of the loop that reaches editorEvent
Key(kind, t2, updown) ==
  /\ focus = "editor"
  /\ LET t3 == Deferred(t2, updown) IN Handle(t3, HistAfter(kind, Tab, t3), TRUE)

\* ------------------------------------------------------------------ events
Keys == {A, W}

\* the documents a run starts from: no file argument, or the lines of a file
InitDocs == { <<>>, << <<A, W>> >>, << <<TAB, A>>, <<A>> >> }

RECURSIVE LoadLines(_, _, _)
LoadLines(t, doc, i) ==
  IF i > Len(doc) THEN t
  ELSE LET r == RunesOf(t.heap, doc[i])
       IN LoadLines([t EXCEPT !.heap = r.h, !.lines = Append(@, r.s)], doc, i + 1)

NewTab == [heap |-> <<>>, lines |-> <<>>, row |-> 0, col |-> 0, top |-> 0, left |-> 0,
           upDownCol |-> 0, selecting |-> FALSE, selection |-> <<>>,
           undoStack |-> <<>>, undoLen |-> 0, redoStack |-> <<>>, lastEdit |-> 0,
           backStack |-> <<>>, forwardStack |-> <<>>, filename |-> "",
           tabs |-> <<1>>, tabIdx |-> 0, tabId |-> 1, parked |-> <<>>,
           focus |-> "editor", console |-> "", consoleCursor |-> 0,
           options |-> <<>>, optionIdx |-> 0, files |-> <<>>, symbols |-> <<>>,
           clipboard |-> <<>>, lineNumber |-> FALSE, panicked |-> FALSE]

\* main up to its event loop, for a document loaded from the file named "f"
\* (or for no file argument, when doc is empty)
InitFile(doc, name) ==
  LET t == Canon(LoadLines([NewTab EXCEPT !.filename = name], doc, 1)) IN
  /\ heap = t.heap /\ lines = t.lines /\ row = 0 /\ col = 0 /\ top = 0 /\ left = 0
  /\ upDownCol = 0 /\ selecting = FALSE /\ selection = <<>>
  /\ undoStack = <<>> /\ undoLen = 0 /\ redoStack = <<>> /\ lastEdit = 0
  /\ backStack = <<>> /\ forwardStack = <<>> /\ filename = t.filename
  /\ tabs = <<1>> /\ tabIdx = 0 /\ tabId = 1 /\ parked = <<>>
  /\ focus = "editor"
  /\ console = "" /\ consoleCursor = 0 /\ options = <<>> /\ optionIdx = 0
  /\ files = <<>> /\ symbols = <<>>
  /\ clipboard = <<>> /\ lineNumber = FALSE /\ panicked = FALSE
  /\ keyRecent = FALSE /\ steps = 0 /\ hist = NoHist

InitTab(doc) == InitFile(doc, IF doc = <<>> THEN "" ELSE "f")

InitProc ==
  /\ cmdCh = <<>> /\ done = FALSE
  /\ loopPc = "select" /\ pending = ""
  /\ consPc = "select" /\ running = <<>>
  /\ cmdLog = [submitted |-> <<>>, started |-> <<>>]

EvKeyRune(r) ==
  LET t2 == Deferred(KeyRune(Tab, r), FALSE)
      typedNow == selected(Tab) = <<>>
      typed == IF ~typedNow THEN "none"
               ELSE IF hist.typed = "none" THEN "first"
               ELSE IF keyRecent THEN "cont" ELSE "late"
      h == [HistAfter("edit", Tab, t2) EXCEPT
              !.typed = typed, !.grew = typedNow /\ t2.undoLen = undoLen + 1]
  IN focus = "editor" /\ Handle(t2, h, TRUE)

EvKeyTAB == Key("edit", KeyTAB(Tab), FALSE)
EvKeyBacktab == Key("edit", KeyBacktab(Tab), FALSE)
EvKeyEnter(rapid) == (rapid => keyRecent) /\ Key("other", KeyEnter(Tab, rapid), FALSE)
EvKeyBackspace == Key("edit", KeyBackspace(Tab), FALSE)
EvKeyLeft == Key("move", KeyLeft(Tab), FALSE)
EvKeyRight(meta) == Key("move", KeyRight(Tab, meta), FALSE)
EvKeyUp(meta) == Key("move", KeyUp(Tab, meta), TRUE)
EvKeyDown(meta) == Key("move", KeyDown(Tab, meta), TRUE)
EvKeyHome == Key("move", KeyHome(Tab), FALSE)
EvKeyEnd == Key("move", KeyEnd(Tab), FALSE)
EvKeyCtrlA == Key("move", KeyCtrlA(Tab), FALSE)
EvKeyCtrlE == Key("move", KeyCtrlE(Tab), FALSE)
EvKeyPgUp == Key("move", KeyPgUp(Tab), FALSE)
EvKeyPgDn == Key("move", KeyPgDn(Tab), FALSE)
EvKeyCtrlC == Key("other", KeyCtrlC(Tab), FALSE)
EvKeyCtrlX == Key("edit", KeyCtrlX(Tab), FALSE)
EvKeyCtrlV == Key("edit", KeyCtrlV(Tab), FALSE)
EvKeyCtrlZ == Key("undo", undo(Tab), FALSE)
EvKeyCtrlY == Key("redo", redo(Tab), FALSE)
EvKeyCtrlUnderscore == Key("move", goBack(Tab), FALSE)
EvKeyEscape == Key("other", KeyEscape(Tab), FALSE)

EvButton1(x, dy) ==
  LET t2 == handleClick(Tab, x, dy) IN Handle(t2, HistAfter("move", Tab, t2), keyRecent)

EvButtonNone ==
  LET t2 == ButtonNone(Tab) IN Handle(t2, HistAfter("other", Tab, t2), keyRecent)

\* a second passes
Older(e) == [e EXCEPT !.time = Min(Second, @ + 1)]

Tick ==
  /\ ~panicked
  /\ steps < MaxSteps
  /\ steps' = steps + 1
  /\ undoStack' = [i \in 1..Len(undoStack) |-> Older(undoStack[i])]
  /\ redoStack' = [i \in 1..Len(redoStack) |-> Older(redoStack[i])]
  /\ keyRecent' = FALSE
  /\ UNCHANGED <<heap, lines, row, col, top, left, upDownCol, selecting, selection,
                 undoLen, lastEdit, backStack, forwardStack, filename, focus,
                 clipboard, lineNumber, panicked, hist>>
  /\ parked' = [i \in DOMAIN parked |->
                  [parked[i] EXCEPT !.undoStack = [k \in 1..Len(@) |-> Older(@[k])],
                                    !.redoStack = [k \in 1..Len(@) |-> Older(@[k])]]]
  /\ UNCHANGED <<tabs, tabIdx, tabId, consVars>>
  /\ UNCHANGED procVars

\* the editor: the events editorEvent and the mouse cases of the loop handle
Init == (\E doc \in InitDocs : InitTab(doc)) /\ InitProc

Next ==
  \/ \E r \in Keys : EvKeyRune(r)
  \/ EvKeyTAB
  \/ EvKeyBacktab
  \/ \E rapid \in BOOLEAN : EvKeyEnter(rapid)
  \/ EvKeyBackspace
  \/ EvKeyLeft
  \/ \E meta \in BOOLEAN : EvKeyRight(meta)
  \/ \E meta \in BOOLEAN : EvKeyUp(meta)
  \/ \E meta \in BOOLEAN : EvKeyDown(meta)
  \/ EvKeyHome
  \/ EvKeyEnd
  \/ EvKeyCtrlA
  \/ EvKeyCtrlE
  \/ EvKeyPgUp
  \/ EvKeyPgDn
  \/ EvKeyCtrlC
  \/ EvKeyCtrlX
  \/ EvKeyCtrlV
  \/ EvKeyCtrlZ
  \/ EvKeyCtrlY
  \/ EvKeyCtrlUnderscore
  \/ EvKeyEscape
  \/ \E x \in 0..(EditorW - 1), dy \in 0..(EditorH - 1) : EvButton1(x, dy)
  \/ EvButtonNone
  \/ Tick

Spec == Init /\ [][Next]_vars

\* ============================================================ the journal
\* C1: undo and then redo right after a recorded edit give back the content and
\* the cursor position that existed right after the edit.
UndoRedoInverse ==
  (hist.phase = "redo" /\ hist.whole) => Snap(Tab) = hist.post

\* C2: undo right after a recorded edit gives back the text that existed
\* before the edit (a document without lines and a document of one empty line
\* are the same text).
UndoRestoresContent ==
  (hist.phase = "undo" /\ hist.whole) => Join(Content(Tab)) = Join(hist.pre.content)

\* C7: after an event that recorded an edit (pushed or coalesced), the redo
\* stack is empty.
EditClearsRedo ==
  hist.phase = "edit" => redoStack = <<>>

\* C8: after an event that recorded an edit, the entry recordEdit wrote to
\* (lastEdit) is the entry on top of the undo stack.
CoalesceTargetIsTop ==
  hist.phase = "edit" => (undoLen > 0 /\ lastEdit = undoLen)

\* C9: a rune typed right after another one, at the next column and less than
\* a second later, adds no entry to the undo stack; typed a second or more
\* later it adds one.
TypingCoalesces ==
  /\ hist.typed = "cont" => ~hist.grew
  /\ hist.typed = "late" => hist.grew

\* C10: after an event that only moved the cursor, the last-edit pointer is nil.
MovementClearsLastEdit ==
  hist.phase = "move" => lastEdit = 0

\* ==================================================== deleteRange, insertAt
\* The two operations as functions of a document and a range: the documents
\* are those of at most MaxLines lines of at most MaxLineLen runes, as loaded
\* from a file.
RTLines == UNION {[1..n -> Keys] : n \in 0..MaxLineLen}

RTDocs == UNION {[1..m -> RTLines] : m \in 1..MaxLines}

InitRT == (\E doc \in RTDocs : InitTab(doc)) /\ InitProc

ValidRange(r1, c1, r2, c2) ==
  /\ r1 \in 0..(Len(lines) - 1) /\ r2 \in r1..(Len(lines) - 1)
  /\ c1 \in 0..lines[r1 + 1].n /\ c2 \in 0..lines[r2 + 1].n
  /\ r1 = r2 => c1 <= c2

\* text := deleteRange(r1, c1, r2, c2); insertAt(text, r1, c1)
RoundTrip(r1, c1, r2, c2) ==
  /\ hist.phase = "none"
  /\ ValidRange(r1, c1, r2, c2)
  /\ LET d == deleteRange(Tab, r1, c1, r2, c2)
         t2 == insertAt(d.t, d.deleted, r1, c1)
     IN /\ SetTab(Canon(t2))
        /\ hist' = [NoHist EXCEPT !.phase = "roundtrip", !.pre = Snap(Tab),
                                  !.post = Snap(d.t)]
  /\ steps' = steps + 1
  /\ UNCHANGED <<keyRecent, procVars>>

NextRT ==
  \E r1, r2 \in 0..(MaxLines - 1), c1, c2 \in 0..MaxLineLen : RoundTrip(r1, c1, r2, c2)

SpecRoundTrip == InitRT /\ [][NextRT]_vars

\* C3: deleting a valid range and inserting the returned text back at the start
\* of the range reproduces the original sequence of lines.
RoundTripRestores ==
  hist.phase = "roundtrip" => (~panicked /\ Content(Tab) = hist.pre.content)

\* ================================================ the loop and commandLoop
\* handleCommand runs in the commandLoop goroutine.  Its reads and writes of
\* the document are placed at its end (CmdEnd); between CmdBegin and CmdEnd
\* the other goroutine can run.
ConsoleCmds == {">bottom", ">linenumber", ">save f"}

\* a.cmdCh <- cmd in the input loop: the send completes if the buffer has
\* room, else the loop stays in the send
Submit(cmd) ==
  /\ ~panicked
  /\ loopPc = "select"
  /\ steps < MaxSteps
  /\ Len(cmdLog.submitted) < MaxCmds
  /\ steps' = steps + 1
  /\ cmdLog' = [cmdLog EXCEPT !.submitted = Append(@, cmd)]
  /\ IF Len(cmdCh) < chanCap
       THEN cmdCh' = Append(cmdCh, cmd) /\ UNCHANGED <<loopPc, pending>>
       ELSE loopPc' = "send" /\ pending' = cmd /\ UNCHANGED cmdCh
  /\ hist' = NoHist
  /\ UNCHANGED <<docVars, keyRecent, done, consPc, running>>

EvKeyCtrlS == Submit(">save " \o filename)

\* handleClick on the Save label
EvClickSave == Submit(">save " \o filename)

\* Ctrl-P: the console takes the focus and holds ">"
EvKeyCtrlP ==
  /\ ~panicked
  /\ loopPc = "select"
  /\ steps < MaxSteps
  /\ steps' = steps + 1
  /\ focus' = "console"
  /\ console' = ">" /\ consoleCursor' = 1
  /\ hist' = NoHist
  /\ UNCHANGED <<heap, lines, row, col, top, left, upDownCol, selecting, selection,
                 undoStack, undoLen, redoStack, lastEdit, backStack, forwardStack,
                 filename, sessVars, options, optionIdx, files, symbols, clipboard,
                 lineNumber, panicked, keyRecent,
                 procVars>>

\* consoleEvent's KeyEnter case, the console holding the command cmd
EvConsoleEnter(cmd) == focus = "console" /\ Submit(cmd)

\* the blocked send completes; loopPc is "sendExit" when the send is the one
\* of consoleEvent that exitConsole follows
SendUnblock ==
  /\ ~panicked
  /\ loopPc \in {"send", "sendExit"}
  /\ Len(cmdCh) < chanCap
  /\ cmdCh' = Append(cmdCh, pending)
  /\ loopPc' = "select"
  /\ pending' = ""
  /\ IF loopPc = "sendExit" THEN SetTab(exitConsole(Tab)) ELSE UNCHANGED docVars
  /\ UNCHANGED <<keyRecent, done, consPc, running, cmdLog, steps, hist>>

\* Ctrl-Q: close(app.done); return
EvKeyCtrlQ ==
  /\ ~panicked
  /\ loopPc = "select"
  /\ steps < MaxSteps
  /\ steps' = steps + 1
  /\ IF done THEN panicked' = TRUE /\ UNCHANGED <<done, loopPc>>
     ELSE done' = TRUE /\ loopPc' = "exited" /\ UNCHANGED panicked
  /\ hist' = [NoHist EXCEPT !.phase = IF done THEN "reclose" ELSE "none"]
  /\ UNCHANGED <<heap, lines, row, col, top, left, upDownCol, selecting, selection,
                 undoStack, undoLen, redoStack, lastEdit, backStack, forwardStack,
                 filename, sessVars, consVars, focus, clipboard, lineNumber, keyRecent, cmdCh,
                 pending, consPc, running, cmdLog>>

\* a commandLoop that would start each command without waiting for the one
\* before (go a.handleCommand(cmd))
ConsAlways == TRUE

\* a commandLoop that would not receive from cmdCh
ConsNever == FALSE

\* commandLoop is at its select: the handleCommand call before has returned
ConsReady == consPc = "select"

\* case cmd := <-a.cmdCh, up to the call of handleCommand
CmdBegin ==
  /\ ~panicked
  /\ consPc # "exited"
  /\ ConsReady
  /\ cmdCh # <<>>
  /\ running' = Append(running, Head(cmdCh))
  /\ cmdLog' = [cmdLog EXCEPT !.started = Append(@, Head(cmdCh))]
  /\ cmdCh' = Tail(cmdCh)
  /\ consPc' = "run"
  /\ UNCHANGED <<docVars, keyRecent, done, loopPc, pending, steps, hist>>

\* handleCommand returns
CmdEnd(ok) ==
  /\ ~panicked
  /\ consPc = "run"
  /\ ~FindDiverges(Tab, Head(running))
  /\ \E t2 \in {handleCommand(Tab, Head(running), ok)} :
       Bounded(t2) /\ \E t3 \in {Canon(t2)} : SetTab(t3)
  /\ running' = Tail(running)
  /\ consPc' = IF Tail(running) = <<>> THEN "select" ELSE "run"
  /\ hist' = [NoHist EXCEPT !.phase = "command", !.cmd = Head(running), !.ok = ok,
                            !.status = StatusOf(Tab, Head(running), ok), !.before = Tab]
  /\ UNCHANGED <<keyRecent, cmdCh, done, loopPc, pending, cmdLog, steps>>

\* case <-a.done: return
ConsExit ==
  /\ ~panicked
  /\ consPc = "select"
  /\ done
  /\ consPc' = "exited"
  /\ UNCHANGED <<docVars, keyRecent, cmdCh, done, loopPc, pending, running, cmdLog,
                 steps, hist>>

NextConc ==
  \/ \E r \in Keys : EvKeyRune(r)
  \/ EvKeyCtrlS
  \/ EvClickSave
  \/ EvKeyCtrlP
  \/ \E cmd \in ConsoleCmds : EvConsoleEnter(cmd)
  \/ SendUnblock
  \/ EvKeyCtrlQ
  \/ CmdBegin
  \/ \E ok \in BOOLEAN : CmdEnd(ok)
  \/ ConsExit

SpecConc == Init /\ [][NextConc]_vars

\* C4: the input loop handles no event that changes the document while
\* handleCommand is running.
NoEventDuringCommand == ~hist.during

\* C5: at most one command is being executed, and the commands are received in
\* the order they were sent: those sent are those received, then the one
\* buffered, then the one the loop is still sending.
CommandsSerialInOrder ==
  /\ Len(running) <= 1
  /\ running # <<>> => running[1] = cmdLog.started[Len(cmdLog.started)]
  /\ cmdLog.submitted =
       cmdLog.started \o cmdCh \o (IF loopPc = "send" THEN <<pending>> ELSE <<>>)

\* two different commands have been received, the second is still running and
\* a third is buffered
TwoCommandsRan ==
  /\ Len(cmdLog.started) >= 2
  /\ cmdLog.started[1] # cmdLog.started[2]
  /\ running # <<>>
  /\ cmdCh # <<>>

\* C6: the input loop is never held in a send on cmdCh.
SubmitNeverBlocks == loopPc # "send"

\* ================================================= viewport, cursor, lines
\* C11: while the cursor is on a line of the document, the first visible row is
\* between 0 and max(0, lineCount - height), and the cursor row is one of the
\* visible rows.
ViewportBound ==
  row \in 0..(Len(lines) - 1) =>
    /\ 0 <= top /\ top <= Max(0, Len(lines) - EditorH)
    /\ top <= row /\ row < top + EditorH

\* C12: in a document that has lines, the cursor row is the index of a line
\* and the cursor column is between 0 and the length of that line.
CursorInBounds ==
  Len(lines) > 0 =>
    /\ row \in 0..(Len(lines) - 1)
    /\ col \in 0..lines[row + 1].n

\* C13: the list of lines is never empty.
LineStoreNonEmpty == Len(lines) >= 1

\* ================================================================= session
\* An event of the input loop that works on the tabs. closes: the handler
\* calls close(done), which panics on a closed channel; returns: main returns
\* right after the handler.
TabEvent(t2, closes, returns) ==
  /\ ~panicked
  /\ loopPc = "select"
  /\ steps < MaxSteps
  /\ Bounded(t2)
  /\ LET crash == t2.panicked \/ (closes /\ done) IN
     /\ SetTab(IF crash THEN Panic(Tab) ELSE Canon(t2))
     /\ done' = (done \/ closes)
     /\ loopPc' = IF returns /\ ~crash THEN "exited" ELSE loopPc
  /\ steps' = steps + 1
  /\ hist' = [NoHist EXCEPT !.phase = IF closes /\ done THEN "reclose" ELSE "none"]
  /\ UNCHANGED <<keyRecent, cmdCh, pending, consPc, running, cmdLog>>

\* Ctrl-T
EvKeyCtrlT ==
  LET t1 == InsertTab(Tab, Len(tabs), TabLit("", <<>>, <<>>))
  IN TabEvent([switchTab(t1, Len(t1.tabs) - 1) EXCEPT !.focus = "editor"], FALSE, FALSE)

\* handleClick on the New label; slices.Insert panics past the end of the slice
EvClickNew ==
  TabEvent(IF tabIdx + 1 > Len(tabs) THEN Panic(Tab)
           ELSE switchTab(InsertTab(Tab, tabIdx + 1, TabLit("", <<>>, <<>>)), tabIdx + 1),
           FALSE, FALSE)

\* handleClick on the name of tab i
EvClickTab(i) ==
  /\ i < Len(tabs)
  /\ TabEvent(IF i # tabIdx THEN [switchTab(Tab, i) EXCEPT !.focus = "editor"] ELSE Tab,
              FALSE, FALSE)

\* handleClick on the close label of tab i
EvClickClose(i) ==
  /\ i < Len(tabs)
  /\ LET t1 == closeTab(Tab, i)
     IN TabEvent(IF t1.tabs = <<>> THEN t1 ELSE [t1 EXCEPT !.focus = "editor"],
                 t1.tabs = <<>>, FALSE)

\* Ctrl-W
EvKeyCtrlW ==
  LET t1 == closeTab(Tab, tabIdx) IN TabEvent(t1, t1.tabs = <<>>, t1.tabs = <<>>)

\* case <-app.done: return, in main
LoopExit ==
  /\ ~panicked
  /\ loopPc = "select"
  /\ done
  /\ loopPc' = "exited"
  /\ UNCHANGED <<docVars, keyRecent, cmdCh, done, pending, consPc, running, cmdLog,
                 steps, hist>>

OpenCmds == {">open f", ">open g"}

NextSession ==
  \/ EvKeyCtrlT
  \/ EvClickNew
  \/ \E i \in 0..(MaxTabs - 1) : EvClickTab(i)
  \/ \E i \in 0..(MaxTabs - 1) : EvClickClose(i)
  \/ EvKeyCtrlW
  \/ \E r \in Keys : EvKeyRune(r)
  \/ EvKeyCtrlP
  \/ \E cmd \in OpenCmds : EvConsoleEnter(cmd)
  \/ SendUnblock
  \/ CmdBegin
  \/ \E ok \in BOOLEAN : CmdEnd(ok)
  \/ ConsExit
  \/ LoopExit

SpecSession == Init /\ [][NextSession]_vars

\* C14: while there is a tab, tabIdx is the index of a tab and State.Tab is the
\* tab at that index; once the last tab is closed the editor handles no event.
SessionInvariant ==
  /\ tabs # <<>> => (tabIdx \in 0..(Len(tabs) - 1) /\ tabs[tabIdx + 1] = tabId)
  /\ ~hist.orphan

\* ============================================= deleteRange, insertAt as calls
\* The two operations called on their own, as undo, redo and the handlers call
\* them: on the lines of a file, after Enter has split a line in place (the
\* two halves share an array), with the cursor wherever the call before left
\* it.
InsTexts == {<<A>>, <<NL>>, <<A, NL, W>>, <<NL, A, NL>>}

DeleteRange(r1, c1, r2, c2) ==
  /\ ~panicked
  /\ steps < MaxOps
  /\ ValidRange(r1, c1, r2, c2)
  /\ LET d == deleteRange(Tab, r1, c1, r2, c2)
     IN /\ SetTab(IF d.t.panicked THEN d.t ELSE Canon(d.t))
        /\ hist' = [NoHist EXCEPT !.phase = "delete", !.pre = Snap(Tab),
                                  !.post = Snap(d.t), !.args = <<r1, c1, r2, c2>>,
                                  !.ret = d.deleted]
  /\ steps' = steps + 1
  /\ UNCHANGED <<keyRecent, procVars>>

InsertAt(s, r, c) ==
  /\ ~panicked
  /\ steps < MaxOps
  /\ r \in 0..(Len(lines) - 1) /\ c \in 0..lines[r + 1].n
  /\ LET t2 == insertAt(Tab, s, r, c)
     IN /\ Bounded(t2)
        /\ SetTab(IF t2.panicked THEN t2 ELSE Canon(t2))
        /\ hist' = [NoHist EXCEPT !.phase = "insert", !.pre = Snap(Tab),
                                  !.post = Snap(t2), !.args = <<r, c>>, !.ret = s]
  /\ steps' = steps + 1
  /\ UNCHANGED <<keyRecent, procVars>>

NextLines ==
  \/ \E r1, r2 \in 0..(MaxLines - 1), c1, c2 \in 0..MaxLineLen : DeleteRange(r1, c1, r2, c2)
  \/ \E s \in InsTexts, r \in 0..(MaxLines - 1), c \in 0..MaxLineLen : InsertAt(s, r, c)
  \/ (steps < MaxOps /\ \E rapid \in BOOLEAN : EvKeyEnter(rapid))
  \/ (steps < MaxOps /\ \E meta \in BOOLEAN : EvKeyRight(meta))

SpecLines == InitRT /\ [][NextLines]_vars

\* C15: deleteRange on a span of several rows leaves, at startRow, the prefix
\* of startRow before startCol followed by the remainder of endRow from
\* endCol, removes the rows after startRow up to endRow (the line count drops
\* by endRow - startRow, and the rows left around the span are as long as the
\* rows that were around it), returns the deleted text with a separator at
\* each row boundary, and puts the cursor at (startRow, startCol).
DeleteRangeMultiRow ==
  (hist.phase = "delete" /\ hist.args[1] < hist.args[3]) =>
    LET r1 == hist.args[1]  c1 == hist.args[2]
        r2 == hist.args[3]  c2 == hist.args[4]
        old == hist.pre.content
        joined == SubSeq(old[r1 + 1], 1, c1) \o SubSeq(old[r2 + 1], c2 + 1, Len(old[r2 + 1]))
        cut == <<SubSeq(old[r1 + 1], c1 + 1, Len(old[r1 + 1]))>>
                 \o SubSeq(old, r1 + 2, r2) \o <<SubSeq(old[r2 + 1], 1, c2)>>
    IN /\ ~panicked
       /\ Len(lines) = Len(old) - (r2 - r1)
       /\ LineText(Tab, r1 + 1) = joined
       /\ \A j \in 1..r1 : lines[j].n = Len(old[j])
       /\ \A j \in (r1 + 2)..Len(lines) : lines[j].n = Len(old[j + (r2 - r1)])
       /\ hist.ret = Join(cut)
       /\ row = r1 /\ col = c1

\* a deletion from inside row 0 to inside row 2 of three lines, on lines that
\* share an array or not
DeletedAcrossRows ==
  /\ hist.phase = "delete"
  /\ hist.args[1] = 0 /\ hist.args[3] = 2
  /\ hist.args[2] > 0
  /\ hist.args[4] < Len(hist.pre.content[3])
  /\ ~panicked

\* C16: insertAt leaves the cursor at the end of the inserted text: at row
\* row + k for a text with k separators, in the column after the last
\* inserted rune.
InsertAtCursorAtEnd ==
  (hist.phase = "insert" /\ ~panicked) =>
    LET parts == Split(hist.ret)
        k == Len(parts) - 1
    IN /\ row = hist.args[1] + k
       /\ col = (IF k = 0 THEN hist.args[2] ELSE 0) + Len(parts[Len(parts)])

\* ================================================================ selected
\* a call of selected(): the result is a copy (sel := *st.selection), the
\* State is the one it was called on
selectedCall(t) == [t |-> t, sel |-> selected(t)]

ReadSelected ==
  /\ ~panicked
  /\ steps < MaxOps + 1
  /\ LET r == selectedCall(Tab)
     IN /\ SetTab(r.t)
        /\ hist' = [NoHist EXCEPT !.phase = "selected", !.args = selection, !.ret = r.sel]
  /\ steps' = steps + 1
  /\ UNCHANGED <<keyRecent, procVars>>

\* selections are made by pressing the button and dragging, in either direction
NextSelect ==
  \/ (steps < MaxOps /\ \E x \in 0..(EditorW - 1), dy \in 0..(EditorH - 1) : EvButton1(x, dy))
  \/ (steps < MaxOps /\ EvButtonNone)
  \/ ReadSelected

SpecSelect == InitRT /\ [][NextSelect]_vars

\* C17: selected() returns nil exactly when no selection is stored or its two
\* endpoints are equal; else the two stored endpoints with the smaller one
\* first, the same for both drag directions; the stored selection is as before.
SelectedNormalized ==
  hist.phase = "selected" =>
    LET s == hist.args
        r == hist.ret
    IN /\ (r = <<>>) <=> (s = <<>> \/ (s[1] = s[3] /\ s[2] = s[4]))
       /\ r # <<>> =>
            /\ (r[1] < r[3] \/ (r[1] = r[3] /\ r[2] <= r[4]))
            /\ {<<r[1], r[2]>>, <<r[3], r[4]>>} = {<<s[1], s[2]>>, <<s[3], s[4]>>}
            /\ r = selected([Tab EXCEPT !.selection = <<s[3], s[4], s[1], s[2]>>])
       /\ selection = s

\* a selection dragged upwards, from a row to a row before it, has been read
ReadReversedSelection ==
  /\ hist.phase = "selected"
  /\ hist.args # <<>>
  /\ hist.args[1] > hist.args[3]
  /\ hist.ret # <<>>

\* ======================================================= coordinate mapper
\* The two mappings as functions of a line and a column or a width. The lines
\* are those of one-line files over a narrow rune, a tab, a zero-width rune
\* (runewidth gives 0 for control characters such as NUL) and a wide rune.
CoordRunes == {A, TAB, NUL, W}

CoordDocs == {<<ln>> : ln \in UNION {[1..n -> CoordRunes] : n \in 0..MaxCoordLen}}

InitCoord == (\E doc \in CoordDocs : InitTab(doc)) /\ InitProc

\* w := columnToScreenWidth(line, c); columnFromScreenWidth(line, w)
ColumnToWidthAndBack(c) ==
  /\ hist.phase = "none"
  /\ c \in 0..lines[1].n
  /\ LET line == LineText(Tab, 1)
         w == columnToScreenWidth(line, c)
     IN hist' = [NoHist EXCEPT !.phase = "column",
                               !.args = <<c, w, columnFromScreenWidth(line, w)>>]
  /\ steps' = steps + 1
  /\ UNCHANGED <<docVars, keyRecent, procVars>>

\* columnFromScreenWidth(line, w)
WidthToColumn(w) ==
  /\ hist.phase = "none"
  /\ w <= columnToScreenWidth(LineText(Tab, 1), lines[1].n)
  /\ hist' = [NoHist EXCEPT !.phase = "width",
                            !.args = <<w, columnFromScreenWidth(LineText(Tab, 1), w)>>]
  /\ steps' = steps + 1
  /\ UNCHANGED <<docVars, keyRecent, procVars>>

NextCoord ==
  \/ \E c \in 0..MaxCoordLen : ColumnToWidthAndBack(c)
  \/ \E w \in 0..(tabSize * MaxCoordLen) : WidthToColumn(w)

SpecCoord == InitCoord /\ [][NextCoord]_vars

HasRune(line, r) == \E i \in 1..Len(line) : line[i] = r

\* C18, as stated: on every line of ASCII runes (tabs and control characters
\* included), the column of the width of a column is that column.
CoordinateInverseAscii ==
  (hist.phase = "column" /\ ~HasRune(LineText(Tab, 1), W)) => hist.args[3] = hist.args[1]

\* C18, amended: on every line of printable ASCII runes and tabs, the column
\* of the width of a column is that column.
CoordinateInversePrintable ==
  (hist.phase = "column" /\ ~HasRune(LineText(Tab, 1), W) /\ ~HasRune(LineText(Tab, 1), NUL))
    => hist.args[3] = hist.args[1]

\* the end column of a line of a tab and two printable runes went to its
\* width, past a tab stop, and back
MappedPastTab ==
  /\ hist.phase = "column"
  /\ LineText(Tab, 1) = <<A, TAB, A>>
  /\ hist.args[1] = 3 /\ hist.args[2] = 5

\* the largest column whose width is at most w
LargestColumn(line, w) ==
  CHOOSE c \in 0..Len(line) :
    /\ columnToScreenWidth(line, c) <= w
    /\ \A d \in 0..Len(line) : columnToScreenWidth(line, d) <= w => d <= c

EvClickQuit == TabEvent(Tab, TRUE, FALSE)

NextShutdown ==
  \/ EvKeyCtrlS
  \/ EvClickSave
  \/ EvKeyCtrlQ
  \/ EvClickQuit
  \/ \E i \in 0..(MaxTabs - 1) : EvClickClose(i)
  \/ EvKeyCtrlW
  \/ SendUnblock
  \/ CmdBegin
  \/ \E ok \in BOOLEAN : CmdEnd(ok)
  \/ ConsExit
  \/ LoopExit

\* Scheduling: a goroutine that can take a step takes one; a select whose
\* done case stays ready takes it after finitely many other choices.
SpecShutdown ==
  /\ Init
  /\ [][NextShutdown]_vars
  /\ WF_vars(LoopExit)
  /\ WF_vars(SendUnblock)
  /\ WF_vars(CmdBegin)
  /\ WF_vars(\E ok \in BOOLEAN : CmdEnd(ok))
  /\ WF_vars(ConsExit)

\* C20: once done is closed, main returns (which ends the process and the
\* consumer with it) or the process has panicked; the loop does not stay in
\* a send and the consumer does not stay in its select.
ShutdownStops ==
  done ~> (panicked \/ loopPc = "exited")

\* ================================================================= console
\* An event of the input loop handled by the console or by one of the keys
\* that open it.  r is what the handler computed: the state r.pre in which it
\* sends r.sent on cmdCh (if it sends) and the state r.post in which it
\* returns.  A send on a full channel leaves the loop in the send.
ConsoleHandle(key, phase, r) ==
  /\ ~panicked
  /\ loopPc = "select"
  /\ steps < MaxSteps
  /\ steps' = steps + 1
  /\ hist' = [NoHist EXCEPT !.phase = phase, !.key = key, !.sent = r.sent,
                            !.before = Tab]
  /\ IF r.sent = <<>>
       THEN SetTab(ConsoleDeferred(r.post)) /\ UNCHANGED <<loopPc, pending, cmdCh, cmdLog>>
     ELSE /\ Len(cmdLog.submitted) < MaxCmds
          /\ cmdLog' = [cmdLog EXCEPT !.submitted = Append(@, r.sent[1])]
          /\ IF Len(cmdCh) < chanCap
               THEN /\ cmdCh' = Append(cmdCh, r.sent[1])
                    /\ SetTab(ConsoleDeferred(r.post))
                    /\ UNCHANGED <<loopPc, pending>>
               ELSE /\ loopPc' = IF r.post = r.pre THEN "send" ELSE "sendExit"
                    /\ pending' = r.sent[1]
                    /\ SetTab(r.pre)
                    /\ UNCHANGED cmdCh
  /\ UNCHANGED <<keyRecent, done, consPc, running>>

NoSend(t) == [pre |-> t, sent |-> <<>>, post |-> t]

\* a key that consoleEvent handles
ConsoleKey(key, r) == focus = "console" /\ ConsoleHandle(key, "console", r)

EvConsoleRune(r) ==
  /\ Len(console) < MaxConsole
  /\ ConsoleKey("Rune", NoSend(ConsoleKeyRune(Tab, r)))

EvConsoleBackspace == ConsoleKey("Backspace", NoSend(ConsoleBackspace(Tab)))
EvConsoleLeft == ConsoleKey("Left", NoSend(ConsoleLeft(Tab)))
EvConsoleRight == ConsoleKey("Right", NoSend(ConsoleRight(Tab)))
EvConsoleTab == ConsoleKey("Tab", NoSend(ConsoleTab(Tab, FALSE)))
EvConsoleBacktab == ConsoleKey("Backtab", NoSend(ConsoleTab(Tab, TRUE)))
EvConsoleEscape == ConsoleKey("Escape", NoSend(exitConsole(Tab)))
EvConsoleKeyEnter == ConsoleKey("Enter", ConsoleEnter(Tab))

\* the file names of the folder, as os.ReadDir lists them (sorted)
FileLists == { <<>>, <<"Ba", "Ca", "a">> }

\* ParseSymbol is the Go parser.  The indexes the model takes for its result:
\* the symbol "a" declared at a rune of the document (its Line the row plus
\* one, its Column the byte offset in the line plus one), and the field "a" of
\* "B" and the symbols "Ba" and "Ca" declared at the first rune.
SymbolAt(name, receiver, t, k, c) ==
  [Name |-> name, Receiver |-> receiver, Line |-> k,
   Column |-> ByteLen(SubSeq(LineText(t, k), 1, c)) + 1]

SymbolTables(t) ==
  LET at == {p \in (1..Len(t.lines)) \X (0..MaxRunes) : p[2] < t.lines[p[1]].n}
      k0 == CHOOSE k \in 1..Len(t.lines) : t.lines[k].n > 0
                                           /\ \A j \in 1..(k - 1) : t.lines[j].n = 0
  IN { [n \in {"a", "Ba", "Ca"} |->
          IF n = "a" THEN <<SymbolAt("a", "B", t, k0, 0), SymbolAt("a", "", t, p[1], p[2])>>
          ELSE <<SymbolAt(n, "", t, k0, 0)>>] : p \in at }

EvKeyCtrlO == \E entries \in FileLists :
  ConsoleHandle("CtrlO", "open", NoSend(KeyCtrlO(Tab, entries)))

EvKeyCtrlG == ConsoleHandle("CtrlG", "open", NoSend(KeyCtrlG(Tab)))

EvKeyCtrlR ==
  \/ ConsoleHandle("CtrlR", "open", NoSend(KeyCtrlR(Tab, <<>>, TRUE)))
  \/ \E index \in SymbolTables(Tab) :
       ConsoleHandle("CtrlR", "open", NoSend(KeyCtrlR(Tab, index, FALSE)))

EvKeyCtrlF == ConsoleHandle("CtrlF", "open", NoSend(KeyCtrlF(Tab)))

\* the runes typed into the console
ConsoleKeys == {"a", "c", "x", ":", " "}

ConsoleDocs == { << <<A>> >> }

InitConsole == (\E doc \in ConsoleDocs : InitFile(doc, "m.go")) /\ InitProc

NextConsole ==
  \/ EvKeyCtrlO
  \/ EvKeyCtrlG
  \/ EvKeyCtrlR
  \/ EvKeyCtrlF
  \/ \E r \in ConsoleKeys : EvConsoleRune(r)
  \/ EvConsoleBackspace
  \/ EvConsoleLeft
  \/ EvConsoleRight
  \/ EvConsoleTab
  \/ EvConsoleBacktab
  \/ EvConsoleEscape
  \/ EvConsoleKeyEnter
  \/ SendUnblock
  \/ CmdBegin
  \/ \E ok \in BOOLEAN : CmdEnd(ok)

SpecConsole == InitConsole /\ [][NextConsole]_vars

\* what the claims about the console compare with: the matches of the keyword
\* among the candidates, those that begin with it first, each group in the
\* order of the candidates
StablePartition(cands, keyword) ==
  LET Has(name) == Index(ToLower(name), ToLower(keyword)) >= 0
      Pre(name) == Index(ToLower(name), ToLower(keyword)) = 0
      Sub(name) == Has(name) /\ ~Pre(name)
  IN Filter(cands, Pre) \o Filter(cands, Sub)

\* C27: after a rune is typed or deleted in '@' mode or in file name mode, the
\* options are the case-insensitive matches of the input, the ones that begin
\* with it first and both groups in their order before, and the first option
\* is selected; nothing is listed when nothing matches.
CandidatesFilteredStable ==
  LET first == IF Len(console) = 0 THEN "" ELSE SubSeq(console, 1, 1)
      symbolMode == first = "@" /\ Len(console) > 1
      fileMode == Len(console) > 0 /\ first \notin {">", "#", ":", "@"}
      expected == IF symbolMode
                    THEN StablePartition(Sort(AllNames(symbols, DOMAIN symbols)),
                                         SubSeq(console, 2, Len(console)))
                  ELSE StablePartition(files, console)
  IN (hist.phase = "console" /\ hist.key \in {"Rune", "Backspace"} /\ ~panicked
      /\ (symbolMode \/ fileMode))
     => (options = expected /\ (expected # <<>> => optionIdx = 0))

\* what Enter found in the console: the trimmed buffer, its mode prefix, the
\* buffer after the prefix, and the selected candidate
EnterCase(b) ==
  LET buf == TrimSpace(b.console)
      first == IF Len(buf) = 0 THEN "" ELSE SubSeq(buf, 1, 1)
      picked == Len(b.options) > 0 /\ b.optionIdx \in 0..(Len(b.options) - 1)
  IN [buf |-> buf, first |-> first,
      rem |-> IF first \in {":", "#", ">", "@"} THEN SubSeq(buf, 2, Len(buf)) ELSE buf,
      picked |-> picked,
      cand |-> IF picked THEN b.options[b.optionIdx + 1] ELSE ""]

EnterLeavesConsole == hist.sent = <<>> => (focus = "editor" /\ console = "")

\* C28, as stated: Enter sends a command exactly when the buffer after the
\* mode prefix is empty and a candidate is selected (the candidate), or in '@'
\* or file name mode a candidate is selected (the candidate), or after ':',
\* '#', '>' the rest is not empty (the buffer); else it leaves the console and
\* sends nothing.
EnterDispatchesAsStated ==
  (hist.phase = "console" /\ hist.key = "Enter" /\ ~panicked) =>
    LET e == EnterCase(hist.before) IN
    /\ IF Len(e.rem) = 0
         THEN (IF e.picked THEN hist.sent \in {<<"@" \o e.cand>>, <<">open " \o e.cand>>}
               ELSE hist.sent = <<>>)
       ELSE IF e.first \in {":", "#", ">"} THEN hist.sent = <<e.buf>>
       ELSE IF ~e.picked THEN hist.sent = <<>>
       ELSE hist.sent = <<(IF e.first = "@" THEN "@" ELSE ">open ") \o e.cand>>
    /\ EnterLeavesConsole

\* C28, amended: the first case is the one of a wholly empty buffer; a lone
\* ':', '#' or '>' sends nothing, whatever candidate is selected.
EnterDispatches ==
  (hist.phase = "console" /\ hist.key = "Enter" /\ ~panicked) =>
    LET e == EnterCase(hist.before) IN
    /\ IF Len(e.buf) = 0
         THEN hist.sent = IF e.picked THEN <<">open " \o e.cand>> ELSE <<>>
       ELSE IF e.first \in {":", "#", ">"}
         THEN hist.sent = IF Len(e.rem) = 0 THEN <<>> ELSE <<e.buf>>
       ELSE IF ~e.picked THEN hist.sent = <<>>
       ELSE hist.sent = <<(IF e.first = "@" THEN "@" ELSE ">open ") \o e.cand>>
    /\ EnterLeavesConsole

\* Enter sent the selected symbol
EnterSentCandidate ==
  /\ hist.phase = "console" /\ hist.key = "Enter" /\ ~panicked
  /\ EnterCase(hist.before).first = "@" /\ EnterCase(hist.before).picked
  /\ hist.sent = <<"@" \o EnterCase(hist.before).cand>>

\* C29: with n > 0 options Tab takes the selected index i to (i+1) mod n and
\* Shift-Tab to (i-1) mod n, the index is in [0,n) afterwards, and Shift-Tab
\* after Tab is back at the candidate that was selected; with no options both
\* keys change nothing.
TabCyclesCandidates ==
  (hist.phase = "console" /\ hist.key \in {"Tab", "Backtab"} /\ ~panicked) =>
    LET n == Len(hist.before.options)
        i == hist.before.optionIdx
    IN IF n = 0 THEN options = hist.before.options /\ optionIdx = i
       ELSE /\ options = hist.before.options
            /\ optionIdx = (IF hist.key = "Tab" THEN i + 1 ELSE i - 1) % n
            /\ optionIdx \in 0..(n - 1)
            /\ (hist.key = "Tab" /\ i \in 0..(n - 1)) => ConsoleTab(Tab, TRUE).optionIdx = i

\* Shift-Tab wrapped from the first candidate to the last of several
BacktabWrapped ==
  /\ hist.phase = "console" /\ hist.key = "Backtab" /\ ~panicked
  /\ Len(options) >= 2 /\ hist.before.optionIdx = 0 /\ optionIdx = Len(options) - 1

\* ================================================================ commands
\* The commands of the console, typed and run: the keys that open the console,
\* the runes that matter in its mode, Tab, Enter, Escape, and commandLoop;
\* with them the editor keys that move the cursor or change the document.
CommandKeys ==
  IF Len(console) = 0 THEN {}
  ELSE IF SubSeq(console, 1, 1) = ":" THEN {"2", "3", "9", "-"}
  ELSE IF SubSeq(console, 1, 1) = "#" THEN {"a", "A"}
  ELSE IF SubSeq(console, 1, 1) = "@" THEN {"a"}
  ELSE {}

CommandDocs == { << <<A, W>> >>, << <<W, A>>, <<UA>>, <<>> >> }

InitCommand == (\E doc \in CommandDocs : InitFile(doc, "m.go")) /\ InitProc

NextCommand ==
  \/ EvKeyRune(A)
  \/ EvKeyBackspace
  \/ EvKeyRight(FALSE)
  \/ EvKeyDown(FALSE)
  \/ EvKeyCtrlS
  \/ EvKeyCtrlO
  \/ EvKeyCtrlG
  \/ EvKeyCtrlR
  \/ EvKeyCtrlF
  \/ \E r \in CommandKeys : EvConsoleRune(r)
  \/ EvConsoleTab
  \/ EvConsoleEscape
  \/ EvConsoleKeyEnter
  \/ SendUnblock
  \/ CmdBegin
  \/ \E ok \in BOOLEAN : CmdEnd(ok)

SpecCommand == InitCommand /\ [][NextCommand]_vars

\* a command has just run: its trimmed text, and the state before it
Ran(prefix) ==
  /\ hist.phase = "command" /\ ~panicked
  /\ Len(TrimSpace(hist.cmd)) > 1 /\ SubSeq(TrimSpace(hist.cmd), 1, 1) = prefix

RanArg == SubSeq(TrimSpace(hist.cmd), 2, Len(TrimSpace(hist.cmd)))

SameCursor == row = hist.before.row /\ col = hist.before.col

SameView ==
  /\ SameCursor /\ top = hist.before.top /\ left = hist.before.left
  /\ backStack = hist.before.backStack /\ forwardStack = hist.before.forwardStack

PushedPosition == backStack = hist.before.backStack \o <<hist.before.row, hist.before.col>>

\* C21: a save or an open that fails with an I/O error leaves the lines, the
\* cursor, the edit journal, the tabs, the active index and the file name as
\* they were.
IOFailureChangesNothing ==
  (hist.phase = "command" /\ ~panicked
   /\ hist.status \in {"Failed to save file: ", "open: error"}) =>
    /\ Content(Tab) = Content(hist.before)
    /\ SameCursor
    /\ undoStack = hist.before.undoStack /\ undoLen = hist.before.undoLen
    /\ redoStack = hist.before.redoStack /\ lastEdit = hist.before.lastEdit
    /\ tabs = hist.before.tabs /\ tabIdx = hist.before.tabIdx
    /\ filename = hist.before.filename

\* C22: a goto-line whose argument is not a number or not in 1..lineCount draws
\* a status message and changes neither the cursor, the scroll offsets, the
\* content nor the navigation stacks.
GotoRejectsInvalid ==
  (Ran(":") /\ (Atoi(RanArg).err \/ Atoi(RanArg).n \notin 1..Len(hist.before.lines))) =>
    /\ hist.status \in {"Invalid line number", "Line number out of range"}
    /\ SameView
    /\ Content(Tab) = Content(hist.before)

\* goto-line was given a number past the last line of a document with lines
GotoRejectedOutOfRange ==
  /\ Ran(":") /\ ~Atoi(RanArg).err /\ Atoi(RanArg).n > Len(hist.before.lines)
  /\ Len(lines) > 0 /\ hist.status = "Line number out of range"

\* C23, as stated: ":N" with 1 <= N <= lineCount puts the cursor on row N-1,
\* column 0 and makes the row visible; N above the line count and negative N
\* go to the last line.
GotoLineAsStated ==
  (Ran(":") /\ ~Atoi(RanArg).err /\ Len(hist.before.lines) > 0) =>
    LET n == Atoi(RanArg).n
        count == Len(hist.before.lines)
    IN /\ n \in 1..count => (row = n - 1 /\ col = 0 /\ top <= row /\ row < top + EditorH)
       /\ (n > count \/ n < 0) => row = count - 1

\* C23, amended: N in 1..lineCount as above; any other N leaves the cursor
\* where it was.
GotoLine ==
  (Ran(":") /\ ~Atoi(RanArg).err /\ Len(hist.before.lines) > 0) =>
    LET n == Atoi(RanArg).n
        count == Len(hist.before.lines)
    IN /\ n \in 1..count => (row = n - 1 /\ col = 0 /\ top <= row /\ row < top + EditorH)
       /\ n \notin 1..count => SameCursor

\* goto-line went to a row below the window and scrolled to it
GotoScrolled ==
  /\ Ran(":") /\ RanArg = "3" /\ row = 2 /\ col = 0
  /\ hist.before.row = 0 /\ hist.before.top = 0 /\ top > 0

\* C24: "@name" or "@receiver.name" that the symbol index resolves to (line L,
\* column C) puts the cursor on row L-1, column C-1 and pushes the position
\* held before on the back stack.
SymbolJump ==
  LET index == hist.before.symbols
      found == {sym \in UNION {{index[k][i] : i \in 1..Len(index[k])} : k \in DOMAIN index} :
                  SymbolName(sym) = RanArg}
  IN (Ran("@") /\ found # {}) =>
       /\ \E sym \in found : row = sym.Line - 1 /\ col = sym.Column - 1
       /\ PushedPosition

\* the occurrences of the keyword in the document, letter case apart
Occurrences(t, keyword) ==
  LET Low(q) == [i \in 1..Len(q) |-> LowerRune(q[i])]
  IN {p \in (0..(Len(t.lines) - 1)) \X (0..MaxRunes) :
        /\ p[2] + Len(keyword) <= t.lines[p[1] + 1].n
        /\ SubSeq(Low(LineText(t, p[1] + 1)), p[2] + 1, p[2] + Len(keyword)) = Low(keyword)}

\* the first of them from the cursor on, the search wrapping to the start
FirstOccurrence(t, keyword) ==
  LET occ == Occurrences(t, keyword)
      Before(p, q) == p[1] < q[1] \/ (p[1] = q[1] /\ p[2] < q[2])
      ahead == {p \in occ : ~Before(p, <<t.row, t.col>>)}
      from == IF ahead # {} THEN ahead ELSE occ
  IN CHOOSE p \in from : \A q \in from : ~Before(q, p)

\* C25: "#text" finds the text, letter case apart, wherever it occurs in the
\* document: the first occurrence from the cursor on, wrapping once to the
\* start, is selected, the cursor is on its row, and the position held before
\* is pushed on the back stack.
FindWrapsWholeDocument ==
  (Ran("#") /\ Occurrences(hist.before, Runes(RanArg)) # {}) =>
    LET p == FirstOccurrence(hist.before, Runes(RanArg))
    IN /\ selection = <<p[1], p[2], p[1], p[2] + Len(RanArg)>>
       /\ row = p[1]
       /\ PushedPosition

EscapeDiscardsSelection ==
  (hist.phase = "console" /\ hist.key = "Escape" /\ ~panicked) =>
    (console = "" /\ focus = "editor" /\ selection = <<>>)


\* ======================================================= console lifecycle
\* the names a string sequence holds
Names(f) == {f[i] : i \in 1..Len(f)}

\* C31: an "@" command that Enter sends names a symbol of the index, and an
\* ">open" command that Enter sends names a file of the listing: the
\* candidate was computed in this mode, not left by another session.
EnterSendsOwnCandidate ==
  (hist.phase = "console" /\ hist.key = "Enter" /\ hist.sent # <<>> /\ ~panicked) =>
    LET cmd == hist.sent[1]
        b == hist.before
        first == SubSeq(TrimSpace(b.console) \o " ", 1, 1)
    IN /\ SubSeq(cmd, 1, 1) = "@" =>
            SubSeq(cmd, 2, Len(cmd)) \in Names(AllNames(b.symbols, DOMAIN b.symbols))
       /\ (first \notin {"#", ":", ">", "@"}) =>
            \E name \in Names(b.files) : cmd = ">open " \o name

\* C31, first half: after Escape or a dispatch the console holds no input, no
\* candidate list and no selected candidate.
ConsoleLeftEmpty ==
  (hist.phase = "console" /\ ~panicked /\ loopPc = "select"
   /\ (hist.key = "Escape" \/ (hist.key = "Enter" /\ hist.sent # <<>>))) =>
    (console = "" /\ options = <<>>)


\* ======================================================== vertical movement
\* A run of Up/Down keys.  hist.args remembers how the run began: the screen
\* column, the row and the column of the cursor before its first key; any
\* other event ends the run.
RunStart ==
  IF hist.phase = "vertical" THEN hist.args
  ELSE <<columnToScreenWidth(LineText(Tab, LineIdx(Tab, row)), col), row, col>>

RunKey(t2) ==
  /\ focus = "editor" /\ Len(lines) > 0
  /\ Handle(Deferred(t2, TRUE),
            [NoHist EXCEPT !.phase = "vertical", !.args = RunStart, !.pre = Snap(Tab)],
            TRUE)

EvRunUp == RunKey(KeyUp(Tab, FALSE))
EvRunDown == RunKey(KeyDown(Tab, FALSE))

VerticalDocs ==
  { << <<TAB, A>>, <<A, A>> >>, << <<A, A>>, <<>>, <<A, A>> >>, << <<A, A, A>>, <<A>> >> }

InitVertical == (\E doc \in VerticalDocs : InitTab(doc)) /\ InitProc

NextVertical ==
  \/ EvRunUp
  \/ EvRunDown
  \/ EvKeyLeft
  \/ EvKeyRight(FALSE)
  \/ EvKeyEnd

SpecVertical == InitVertical /\ [][NextVertical]_vars

\* C32: in a run of Up/Down keys every row the cursor moves to gets the
\* column nearest to, and not past, the screen column the cursor had when the
\* run began, and a row of the run's first position gets its column back.
VerticalRunKeepsScreenColumn ==
  (hist.phase = "vertical" /\ ~panicked) =>
    /\ row # hist.pre.row =>
         col = columnFromScreenWidth(LineText(Tab, LineIdx(Tab, row)), hist.args[1])
    /\ row = hist.args[2] => col = hist.args[3]

\* the same for documents without tabs, where a column is a screen column
VerticalRunKeepsColumnAscii ==
  (\A k \in 1..Len(lines) : \A i \in 1..lines[k].n : LineText(Tab, k)[i] # TAB)
    => VerticalRunKeepsScreenColumn


\* ===================================================================== jump
\* jump(row, col) called on the state t0; hist.before is t0, hist.args the
\* arguments
JumpCall(t0, r, c) ==
  /\ ~panicked
  /\ steps < MaxSteps
  /\ steps' = steps + 1
  /\ SetTab(jump(t0, r, c))
  /\ hist' = [NoHist EXCEPT !.phase = "jump", !.args = <<r, c>>, !.before = t0]
  /\ UNCHANGED <<keyRecent, procVars>>

JumpRows == (0 - 1)..5
JumpCols == (0 - 1)..6

EvJump == \E r \in JumpRows, c \in JumpCols : JumpCall(Tab, r, c)

\* the "linenumber" command: the gutter changes, then jump(row, col)
EvJumpLineNumber == JumpCall([Tab EXCEPT !.lineNumber = ~@, !.focus = "editor"], row, col)

JumpDocs ==
  { << <<A, A, A, A, A, A>>, <<>>, <<A>>, <<TAB, A>>, <<>> >>, << <<A, W, A>>, <<A>> >> }

InitJump == (\E doc \in JumpDocs : InitTab(doc)) /\ InitProc

NextJump == EvJump \/ EvJumpLineNumber

SpecJump == InitJump /\ [][NextJump]_vars

\* the cursor's cell is in the window whose offsets are top0 and left0
CursorInside(top0, left0) ==
  LET s == columnToScreenWidth(LineText(Tab, LineIdx(Tab, row)), col) IN
  /\ top0 <= row /\ row < top0 + EditorH
  /\ left0 <= s /\ s <= left0 + (EditorW - lineNumLen(Tab) - 1)

\* C33: after jump on a document with lines the cursor's cell is inside the
\* viewport, vertically and horizontally; a jump to a cell that was inside it
\* already, on a row that is neither the first nor the last, moves neither
\* top nor left.
JumpKeepsCursorVisible ==
  (hist.phase = "jump" /\ ~panicked /\ Len(lines) > 0) =>
    /\ CursorInside(top, left)
    /\ (CursorInside(hist.before.top, hist.before.left)
        /\ 0 < row /\ row < Len(lines) - 1)
         => (top = hist.before.top /\ left = hist.before.left)

\* a jump to a row between the first and the last scrolled both ways
JumpScrolledBoth ==
  /\ hist.phase = "jump" /\ ~panicked
  /\ 0 < row /\ row < Len(lines) - 1
  /\ top # hist.before.top /\ left # hist.before.left


\* ============================================================ row identity
\* C34: an event that inserts or deletes one rune on the cursor's row (a typed
\* rune, Tab, Backspace inside the line) leaves the text of every other row
\* as it was.
OneRowEditKeepsOtherRows ==
  [][(/\ hist'.phase = "edit" /\ ~panicked'
      /\ Len(lines') = Len(lines) /\ Len(lines) > 0
      /\ row' = row
      /\ lines'[row + 1].n \in {lines[row + 1].n + 1, lines[row + 1].n - 1})
     => \A k \in 1..Len(lines) :
          k # row + 1 => SliceText(heap', lines'[k]) = SliceText(heap, lines[k])]_vars


\* ============================================================ shutdown signal
\* C35: done is closed at most once: no handler calls close(done) after a
\* handler has closed it.
DoneClosedOnce == hist.phase # "reclose"


\* ================================================================ mouse drag
\* C36: while a drag is in progress (selecting) there is a selection record.
DragHasSelection == (selecting /\ ~panicked) => selection # <<>>


\* ============================================================ console cursor
\* C37: while the console has the focus its cursor offset is between 0 and
\* the length of the input.
ConsoleCursorInBuffer ==
  (focus = "console" /\ ~panicked /\ loopPc = "select") =>
    (0 <= consoleCursor /\ consoleCursor <= Len(console))


\* ============================================================= command queue
\* the commands that have been put on cmdCh (a send that still blocks has
\* not put its command there), and those handleCommand has returned from
Queued == Len(cmdLog.submitted) - (IF loopPc \in {"send", "sendExit"} THEN 1 ELSE 0)

Executed == Len(cmdLog.started) - Len(running)

Breaks(key, t) ==
  \/ key = "Enter"
  \/ key = "Backspace" /\ selected(t) = <<>> /\ t.col = 0 /\ t.row > 0

\* A key of editorEvent.  hist.before is the state before it; hist.args tells
\* of the event before this one: its key, whether it was a split or a join,
\* and whether the journal held an entry before it.
JournalKey(key, t2) ==
  /\ focus = "editor"
  /\ Handle(Deferred(t2, FALSE),
            [NoHist EXCEPT
               !.phase = "journal", !.key = key, !.before = Tab,
               !.args = IF hist.phase = "journal"
                          THEN <<hist.key, Breaks(hist.key, hist.before),
                                 hist.before.undoLen + Len(hist.before.redoStack) > 0>>
                        ELSE <<"", FALSE, FALSE>>],
            TRUE)

EvJournalRune(r) == JournalKey("Rune", KeyRune(Tab, r))
EvJournalEnter(rapid) == (rapid => keyRecent) /\ JournalKey("Enter", KeyEnter(Tab, rapid))
EvJournalBackspace == JournalKey("Backspace", KeyBackspace(Tab))
EvJournalRight == JournalKey("Right", KeyRight(Tab, FALSE))
EvJournalCtrlZ == JournalKey("CtrlZ", undo(Tab))
EvJournalCtrlY == JournalKey("CtrlY", redo(Tab))

NextJournal ==
  \/ \E r \in Keys : EvJournalRune(r)
  \/ \E rapid \in BOOLEAN : EvJournalEnter(rapid)
  \/ EvJournalBackspace
  \/ EvJournalRight
  \/ EvJournalCtrlZ
  \/ EvJournalCtrlY

SpecJournal == Init /\ [][NextJournal]_vars

\* C39: a line split or a line join leaves the undo stack and the redo stack
\* empty and the coalescing pointer nil, and an undo or a redo right after it
\* changes neither the text nor the cursor nor the stacks.
BreakClearsJournal ==
  (hist.phase = "journal" /\ ~panicked) =>
    /\ Breaks(hist.key, hist.before) =>
         (undoLen = 0 /\ undoStack = <<>> /\ redoStack = <<>> /\ lastEdit = 0)
    /\ (hist.key \in {"CtrlZ", "CtrlY"} /\ hist.args[2]) =>
         /\ Content(Tab) = Content(hist.before)
         /\ row = hist.before.row /\ col = hist.before.col
         /\ undoLen = 0 /\ redoStack = <<>>

\* Ctrl-Z right after a line join that came after recorded edits
UndoAfterJoin ==
  /\ hist.phase = "journal" /\ ~panicked
  /\ hist.key = "CtrlZ" /\ hist.args = <<"Backspace", TRUE, TRUE>>


\* ========================================================= navigation history
\* An event that moves through or adds to the navigation stacks.  hist.before
\* is the state before it; hist.args is the key of the event before this one
\* and hist.ret the state before that event.
NavEvent(key, t2) ==
  Handle(t2,
         [NoHist EXCEPT !.phase = "nav", !.key = key, !.before = Tab,
                        !.args = <<IF hist.phase = "nav" THEN hist.key ELSE "">>,
                        !.ret = IF hist.phase = "nav" THEN <<hist.before>> ELSE <<>>],
         keyRecent)

NavKey(key, t2) == focus = "editor" /\ NavEvent(key, Deferred(t2, FALSE))

EvNavBack == NavKey("back", goBack(Tab))
EvNavForward == NavEvent("forward", handleCommand(Tab, ">forward", TRUE))
EvNavClick == \E x \in 0..EditorW, dy \in 0..(EditorH - 1) :
  NavEvent("click", handleClick(Tab, x, dy))
EvNavRelease == NavEvent("release", ButtonNone(Tab))
EvNavEnd == NavKey("End", KeyEnd(Tab))
EvNavBackspace == NavKey("Backspace", KeyBackspace(Tab))

NavDocs == { << <<A, A>>, <<A>> >>, << <<A, W, A>> >> }

InitNav == (\E doc \in NavDocs : InitTab(doc)) /\ InitProc

NextNav ==
  \/ EvNavBack
  \/ EvNavForward
  \/ EvNavClick
  \/ EvNavRelease
  \/ EvNavEnd
  \/ EvNavBackspace

SpecNav == InitNav /\ [][NextNav]_vars

\* the back stack's last entry names a cell of the document of t
BackEntryValid(t) ==
  LET n == Len(t.backStack) IN
  n >= 2 => /\ 0 <= t.backStack[n - 1] /\ t.backStack[n - 1] < Len(t.lines)
            /\ 0 <= t.backStack[n]
            /\ t.backStack[n] <= t.lines[t.backStack[n - 1] + 1].n

\* goForward came right after a goBack that had a position to go back to: the
\* cursor and both stacks are those held before goBack, given pre
RoundTrip40(pre) ==
  (hist.phase = "nav" /\ ~panicked /\ hist.key = "forward" /\ hist.args = <<"back">>
   /\ hist.ret[1].backStack # <<>> /\ pre) =>
    LET b == hist.ret[1]
    IN /\ row = b.row /\ col = b.col
       /\ backStack = b.backStack /\ forwardStack = b.forwardStack

\* goBack on an empty back stack and goForward on an empty forward stack
\* change neither the cursor nor the stacks; recording empties the forward stack
NavEdges ==
  (hist.phase = "nav" /\ ~panicked) =>
    /\ ((hist.key = "back" /\ hist.before.backStack = <<>>)
        \/ (hist.key = "forward" /\ hist.before.forwardStack = <<>>))
         => /\ row = hist.before.row /\ col = hist.before.col
            /\ backStack = hist.before.backStack
            /\ forwardStack = hist.before.forwardStack
    /\ (hist.key = "click" /\ Len(hist.before.lines) > 0) =>
         (forwardStack = <<>>
          /\ backStack = hist.before.backStack \o <<hist.before.row, hist.before.col>>)

====
